---- MODULE Spec2Model ----
(***************************************************************************)
(* A model of the TAP agent's per-sender accounting: the Sender Actor      *)
(* (crates/tap-agent/src/agent/sender_account.rs) and the Allocation Actor *)
(* (tap-agent/src/agent/sender_allocation.rs) with the receipt store       *)
(* they share.                                                             *)
(*                                                                         *)
(* Amounts are GRT wei held in u128; they are modelled as naturals far     *)
(* below 2^128, so the sums the actors take never wrap.  For the Sender    *)
(* Actor time is modelled by the events it causes: a receipt leaving the   *)
(* buffer, a backoff ending, a scheduled Retry firing.  The store and the  *)
(* Allocation Actor have a clock, since receipts carry timestamps.         *)
(***************************************************************************)
EXTENDS Integers, FiniteSets, Sequences, TLC

\* ------------------------------------------------------------ bounds
\* Largest unaggregated fee total of one allocation.
MaxVal == 2
\* Largest capacity the limiter is let grow to.
MaxLimit == 3
\* Receipt rows ever inserted for the allocation.
MaxReceipts == 2
\* Last tick of the clock.
MaxNow == 3
\* Failed RAV requests in one run.
MaxFailed == 1
\* Times the value of one receipt is added in one run
MaxAdded == 2
\* Notifications Postgres holds for the listener at one time.
MaxNotifications == 2
\* Requests the middleware handles in one run.
MaxRequests == 2

\* ------------------------------------------------------------ constants
INITIAL_RAV_REQUEST_CONCURRENT == 1
\* AdaptiveLimiter::new(INITIAL_RAV_REQUEST_CONCURRENT, 1..50)
LIMIT_RANGE_START == 1
LIMIT_RANGE_END == 50

\* rav_request_timestamp_buffer_ms, in ticks of the clock.
RAV_REQUEST_TIMESTAMP_BUFFER == 1
\* The timestamp tolerance of the service's timestamp check, in ticks.
TIMESTAMP_ERROR_TOLERANCE == 1

\* u128::MAX, the width of the fees scaled down to 4 bits.
U128_MAX == 2 ^ 4 - 1
\* The ids a NewReceipt notification may carry.
NotificationIds == 1 .. MaxReceipts + 2

\* Allocation addresses; their order is the addresses' order.
Allocs == {1, 2, 3}
\* Option::None for an allocation id, a tracker entry or a stored RAV.
None == 0
NoEntry == -1

Amounts == 0 .. MaxVal

Min(a, b) == IF a < b THEN a ELSE b
Max(a, b) == IF a > b THEN a ELSE b
SatSub(a, b) == IF a > b THEN a - b ELSE 0

VARIABLES
    \* ---- Sender Actor (State of sender_account.rs)
    sender_fee_tracker,        \* allocation -> SenderFeeStats
    rav_tracker,               \* allocation -> value | NoEntry
    invalid_receipts_tracker,  \* allocation -> value | NoEntry
    allocation_ids,            \* the current allocation set
    scheduled_rav_request,     \* None | allocation of the scheduled Retry
    retry_timers,              \* send_after tasks of a Retry still to fire
    denied,
    sender_balance,
    adaptive_limiter,          \* [current_limit, in_flight]
    backoff_info,              \* TRUE while the global backoff runs
    config,                    \* SenderAccountConfig
    \* ---- around the Sender Actor
    sender_allocations,        \* allocations whose Allocation Actor is registered
    stopped,                   \* allocation -> "no", or how the fee tracker held
                               \* it when its actor was told to stop
    retry_casts,               \* allocations of the Retry messages cast to myself
    denylist,                  \* TRUE iff scalar_tap_denylist holds the sender
    trigger_requests,          \* allocation -> TriggerRavRequest not yet answered
    last_msg                   \* the message the Sender Actor handled last

senderVars == << sender_fee_tracker, rav_tracker, invalid_receipts_tracker,
                 allocation_ids, scheduled_rav_request, retry_timers, denied,
                 sender_balance, adaptive_limiter, backoff_info, config, sender_allocations,
                 stopped, retry_casts, denylist, trigger_requests, last_msg >>

VARIABLES
    \* ---- the store, for one (sender, allocation)
    scalar_tap_receipts,          \* ids of the pending receipt rows
    scalar_tap_receipts_invalid,  \* receipt id -> rows stored as invalid
    scalar_tap_ravs,              \* the RAV rows: at most one
    scalar_tap_rav_requests_failed, \* number of rows
    inserted,                     \* every receipt row ever inserted, by id
    \* ---- Allocation Actor (SenderAllocationState)
    unaggregated_fees,            \* [value, last_id]
    invalid_receipts_fees,        \* value
    latest_rav,                   \* {} or {the RAV}
    failed_ravs_count,
    failed_rav_backoff_running,   \* Instant::now() <= failed_rav_backoff
    failed_rav_backoff_delay,     \* the delay of the backoff that runs, in ms
    \* ---- around the Allocation Actor
    now,                          \* the clock
    status,                       \* "running"; in post_stop "closing" or
                                  \* "sleeping"; then "stopped"
    delivered,                    \* notifications handled: those of ids 1..delivered
    closed_sender_allocations,    \* CLOSED_SENDER_ALLOCATIONS
    ravs_failed,                  \* RAVS_FAILED
    rav_request_receipts,         \* ids sent in the last aggregate_receipts call
    aggregated,                   \* receipt id -> stored RAVs that included it
    new_value_casts,              \* the fees cast as UpdateReceiptFees(NewValue)
                                  \* by the NewReceipt handler, if it ran last
    added                         \* receipt id -> times the NewReceipt handler
                                  \* added its value to unaggregated_fees

allocVars == << scalar_tap_receipts, scalar_tap_receipts_invalid, scalar_tap_ravs,
                scalar_tap_rav_requests_failed, inserted, unaggregated_fees,
                invalid_receipts_fees, latest_rav, failed_ravs_count,
                failed_rav_backoff_running, failed_rav_backoff_delay, now, status,
                delivered,
                closed_sender_allocations, ravs_failed, rav_request_receipts,
                aggregated, new_value_casts, added >>

VARIABLES
    \* ---- EscrowAdapter (tap/escrow_adapter.rs), for the sender
    escrow_accounts,           \* the sender's balance in the escrow accounts
    sender_pending_fees,       \* u128
    subtract_escrow_calls,     \* caller -> its subtract_escrow call
    \* ---- DenyListCheck of the service
    pglistener,                \* "new"; "listening" once LISTEN is done;
                               \* "watching" once the watcher task runs
    notifications,             \* scalar_tap_deny_notification events that
                               \* Postgres holds for the listener
    sender_denylist,           \* the in-memory set of denied senders
    raced                      \* the notifications that were pending when
                               \* the start-up load read the table

serviceVars == << escrow_accounts, sender_pending_fees, subtract_escrow_calls,
                  pglistener, notifications, sender_denylist, raced >>

VARIABLES
    \* ---- the tap_receipt_authorize middleware of the service
    receipt_producer,          \* the receipts handed to the receipt store
    failed_receipt_metric,     \* the counter, over every label
    last_response,             \* the request answered last and its answer
    requests_handled

gateVars == << receipt_producer, failed_receipt_metric, last_response,
               requests_handled >>

vars == << senderVars, allocVars, serviceVars, gateVars >>

\* The address of the sender, SENDER of the test utilities.
SENDER == 1

\* The callers of the shared EscrowAdapter: the Account instances.
Callers == {1, 2}

NoCall == [pc |-> "idle", value |-> 0, current_available_escrow |-> 0,
           result |-> "none"]

\* EscrowAdapter::new for an escrow account of one of the balances, and
\* the service before DenyListCheck::new and before its first request.
ServiceInit(balances) ==
    /\ escrow_accounts \in balances
    /\ sender_pending_fees = 0
    /\ subtract_escrow_calls = [c \in Callers |-> NoCall]
    /\ pglistener = "new"
    /\ notifications = << >>
    /\ sender_denylist = {}
    /\ raced = << >>
    /\ receipt_producer = << >>
    /\ failed_receipt_metric = 0
    /\ last_response = [status |-> "none", request |-> [receipt |-> {}, labels |-> FALSE]]
    /\ requests_handled = 0

\* The trigger of scalar_tap_denylist: a row inserted or deleted raises a
\* notification, which Postgres keeps for a session that listens.
pg_notify(queue, listener, row, new_row) ==
    IF listener = "new" \/ row = new_row THEN queue
    ELSE Append(queue, [tg_op |-> IF new_row THEN "INSERT" ELSE "DELETE",
                        sender_address |-> SENDER])

\* An empty store at time 0 and the actor pre_start leaves on it.
AllocInit ==
    /\ scalar_tap_receipts = {}
    /\ scalar_tap_receipts_invalid = [id \in 1 .. MaxReceipts |-> 0]
    /\ scalar_tap_ravs = {}
    /\ scalar_tap_rav_requests_failed = 0
    /\ inserted = << >>
    /\ unaggregated_fees = [value |-> 0, last_id |-> 0]
    /\ invalid_receipts_fees = 0
    /\ latest_rav = {}
    /\ failed_ravs_count = 0
    /\ failed_rav_backoff_running = FALSE
    /\ failed_rav_backoff_delay = 0
    /\ now = 0
    /\ status = "running"
    /\ delivered = 0
    /\ closed_sender_allocations = 0
    /\ ravs_failed = 0
    /\ rav_request_receipts = {}
    /\ aggregated = [id \in 1 .. MaxReceipts |-> 0]
    /\ new_value_casts = {}
    /\ added = [id \in 1 .. MaxReceipts |-> 0]

\* ------------------------------------------------------------ trackers
\* SenderFeeStats: the allocation's total and receipt count, the receipts
\* still inside the buffer, the in-flight mark, the backoff and the block.
DefaultStats ==
    [total_fee |-> 0, count |-> 0, buf_count |-> 0,
     requesting |-> FALSE, in_backoff |-> FALSE, blocked |-> FALSE]

RECURSIVE SumOver(_, _)
SumOver(f, S) ==
    IF S = {} THEN 0
    ELSE LET a == CHOOSE x \in S : TRUE
         IN  f[a] + SumOver(f, S \ {a})

\* SimpleFeeTracker::get_total_fee
SimpleTotal(t) == SumOver([a \in Allocs |-> IF t[a] = NoEntry THEN 0 ELSE t[a]], Allocs)

\* SimpleFeeTracker::update
SimpleUpdate(t, a, v) == [t EXCEPT ![a] = v]

\* SimpleFeeTracker::remove
SimpleRemove(t, a) == [t EXCEPT ![a] = NoEntry]

\* SimpleFeeTracker::get_list_of_allocation_ids
SimpleList(t) == {a \in Allocs : t[a] # NoEntry}

\* SenderFeeTracker::get_total_fee: every allocation, buffered fees included.
get_total_fee(t) == SumOver([a \in Allocs |-> t[a].total_fee], Allocs)

\* can_trigger_rav as a tracker that forgets the requests in flight would
\* have it.
can_trigger_while_requesting(t, a) == ~t[a].blocked /\ ~t[a].in_backoff

\* SenderFeeTracker::can_trigger_rav: not blocked, no request in flight,
\* not in backoff.
can_trigger_rav(t, a) ==
    ~t[a].blocked /\ ~t[a].requesting /\ ~t[a].in_backoff

\* A candidate for a RAV request: can trigger and its last receipt has left
\* the buffer.
IsCandidate(t, a) == can_trigger_rav(t, a) /\ t[a].buf_count = 0

\* The fee of an allocation the tracker reports as ravable.
RavableFee(t, a) == IF IsCandidate(t, a) THEN t[a].total_fee ELSE 0

\* SenderFeeTracker::get_ravable_total_fee: the candidates only.
get_ravable_total_fee(t) == SumOver([a \in Allocs |-> RavableFee(t, a)], Allocs)

\* SenderFeeTracker::get_count_outside_buffer_for_allocation
get_count_outside_buffer_for_allocation(t, a) == SatSub(t[a].count, t[a].buf_count)

\* SenderFeeTracker::get_heaviest_allocation_id: what the call may return,
\* a candidate with the largest ravable fee, None when no candidate has
\* fees.  Equal fees are told apart by last_receipt_ts, which the model
\* does not keep, so any of the heaviest may be returned.
get_heaviest_allocation_id(t) ==
    LET C == {a \in Allocs : RavableFee(t, a) > 0}
    IN  IF C = {} THEN {None}
        ELSE {a \in C : \A b \in C : RavableFee(t, b) <= RavableFee(t, a)}

\* SenderFeeTracker::add
TrackerAdd(t, a, value, fresh) ==
    [t EXCEPT ![a].total_fee = @ + value,
              ![a].count = @ + 1,
              ![a].buf_count = IF fresh THEN @ + 1 ELSE @]

\* SenderFeeTracker::update
TrackerUpdate(t, a, fees) ==
    [t EXCEPT ![a].total_fee = fees.value, ![a].count = fees.counter]

\* SenderFeeTracker::start_rav_request
start_rav_request(t, a) == [t EXCEPT ![a].requesting = TRUE]

\* SenderFeeTracker::finish_rav_request
finish_rav_request(t, a) == [t EXCEPT ![a].requesting = FALSE]

\* SenderFeeTracker::ok_rav_request
ok_rav_request(t, a) == [t EXCEPT ![a].in_backoff = FALSE]

\* SenderFeeTracker::failed_rav_backoff
failed_rav_backoff(t, a) == [t EXCEPT ![a].in_backoff = TRUE]

\* ------------------------------------------------------------ limiter
\* AdaptiveLimiter::has_limit
has_limit(l) == l.in_flight < l.current_limit

\* AdaptiveLimiter::acquire
acquire(l) == [l EXCEPT !.in_flight = @ + 1]

\* on_success as a limiter without the upper end of its range would do it.
on_success_uncapped(l) ==
    [current_limit |-> l.current_limit + 1,
     in_flight |-> SatSub(l.in_flight, 1)]

\* AdaptiveLimiter::on_success
on_success(l) ==
    [current_limit |-> Min(l.current_limit + 1, LIMIT_RANGE_END),
     in_flight |-> SatSub(l.in_flight, 1)]

\* AdaptiveLimiter::on_failure
on_failure(l) ==
    [current_limit |-> Max(l.current_limit \div 2, LIMIT_RANGE_START),
     in_flight |-> SatSub(l.in_flight, 1)]

\* ------------------------------------------------------------ Sender Actor
\* The Sender Actor's State together with what its handlers write outside
\* it: the denylist row and the TriggerRavRequest casts.
State ==
    [sender_fee_tracker |-> sender_fee_tracker,
     rav_tracker |-> rav_tracker,
     invalid_receipts_tracker |-> invalid_receipts_tracker,
     allocation_ids |-> allocation_ids,
     scheduled_rav_request |-> scheduled_rav_request,
     retry_timers |-> retry_timers,
     denied |-> denied,
     sender_balance |-> sender_balance,
     adaptive_limiter |-> adaptive_limiter,
     backoff_info |-> backoff_info,
     config |-> config,
     sender_allocations |-> sender_allocations,
     stopped |-> stopped,
     retry_casts |-> retry_casts,
     denylist |-> denylist,
     trigger_requests |-> trigger_requests]

SetState(s, msg) ==
    /\ sender_fee_tracker' = s.sender_fee_tracker
    /\ rav_tracker' = s.rav_tracker
    /\ invalid_receipts_tracker' = s.invalid_receipts_tracker
    /\ allocation_ids' = s.allocation_ids
    /\ scheduled_rav_request' = s.scheduled_rav_request
    /\ retry_timers' = s.retry_timers
    /\ denied' = s.denied
    /\ sender_balance' = s.sender_balance
    /\ adaptive_limiter' = s.adaptive_limiter
    /\ backoff_info' = s.backoff_info
    /\ config' = s.config
    /\ sender_allocations' = s.sender_allocations
    /\ stopped' = s.stopped
    /\ retry_casts' = s.retry_casts
    /\ denylist' = s.denylist
    /\ trigger_requests' = s.trigger_requests
    /\ last_msg' = msg
    /\ notifications' = pg_notify(notifications, pglistener, denylist, s.denylist)
    /\ UNCHANGED << escrow_accounts, sender_pending_fees, subtract_escrow_calls,
                    pglistener, sender_denylist, raced >>
    /\ UNCHANGED << allocVars, gateVars >>

update_rav(s, a, rav_value) ==
    [s EXCEPT !.rav_tracker = SimpleUpdate(@, a, rav_value)]

update_sender_fee(s, a, fees) ==
    [s EXCEPT !.sender_fee_tracker = TrackerUpdate(@, a, fees)]

\* deny_condition_reached with > in place of >=.
deny_condition_strict(s) ==
    \/ get_total_fee(s.sender_fee_tracker) + SimpleTotal(s.invalid_receipts_tracker)
            > s.config.max_amount_willing_to_lose_grt
    \/ SimpleTotal(s.rav_tracker) + get_total_fee(s.sender_fee_tracker)
            > s.sender_balance

deny_condition_reached(s) ==
    LET pending_ravs == SimpleTotal(s.rav_tracker)
        total_unaggregated_fees == get_total_fee(s.sender_fee_tracker)
        pending_fees_over_balance ==
            pending_ravs + total_unaggregated_fees >= s.sender_balance
        invalid_receipt_fees == SimpleTotal(s.invalid_receipts_tracker)
        total_fee_over_max_value ==
            total_unaggregated_fees + invalid_receipt_fees
                >= s.config.max_amount_willing_to_lose_grt
    IN  total_fee_over_max_value \/ pending_fees_over_balance

\* INSERT INTO scalar_tap_denylist ... ON CONFLICT DO NOTHING
deny_sender(s) == [s EXCEPT !.denylist = TRUE]

add_to_denylist(s) == [deny_sender(s) EXCEPT !.denied = TRUE]

\* remove_from_denylist without the DELETE.
remove_flag_only(s) == [s EXCEPT !.denied = FALSE]

\* DELETE FROM scalar_tap_denylist, then denied = false
remove_from_denylist(s) == [s EXCEPT !.denylist = FALSE, !.denied = FALSE]

\* let should_deny = !state.denied && state.deny_condition_reached()
DenyIfNeeded(s) ==
    IF ~s.denied /\ deny_condition_reached(s) THEN add_to_denylist(s) ELSE s

\* rav_request_for_allocation that takes the slot and marks the allocation
\* without casting the TriggerRavRequest.
rav_request_without_cast(s, a) ==
    IF a \notin s.sender_allocations THEN s
    ELSE [s EXCEPT !.adaptive_limiter = acquire(@),
                   !.sender_fee_tracker = start_rav_request(@, a)]

\* The request is cast to the actor ActorRef::where_is finds.
rav_request_for_allocation(s, a) ==
    IF a \notin s.sender_allocations THEN s
    ELSE [s EXCEPT !.trigger_requests[a] = @ + 1,
                   !.adaptive_limiter = acquire(@),
                   !.sender_fee_tracker = start_rav_request(@, a)]

\* The request sent to the first allocation that may be requested, whatever
\* its fees.
rav_request_for_first_allocation(s, h) ==
    LET C == {a \in s.allocation_ids : can_trigger_rav(s.sender_fee_tracker, a)}
    IN  IF h = None \/ C = {} THEN [s EXCEPT !.backoff_info = TRUE]
        ELSE rav_request_for_allocation([s EXCEPT !.backoff_info = FALSE],
                                        CHOOSE a \in C : \A b \in C : a <= b)

\* h is what get_heaviest_allocation_id returned.
rav_request_for_heaviest_allocation(s, h) ==
    IF h = None THEN [s EXCEPT !.backoff_info = TRUE]
    ELSE rav_request_for_allocation([s EXCEPT !.backoff_info = FALSE], h)

\* finalize_rav_request that adds the RAV's value to the tracked one.
finalize_adding_rav(s, a, rav_response) ==
    LET s1 == [s EXCEPT !.sender_fee_tracker = finish_rav_request(@, a)]
        s2 == IF rav_response.ok
              THEN update_rav(
                      [s1 EXCEPT !.sender_fee_tracker = ok_rav_request(@, a),
                                 !.adaptive_limiter = on_success(@)],
                      a,
                      (IF s1.rav_tracker[a] = NoEntry THEN 0 ELSE s1.rav_tracker[a])
                          + (IF rav_response.rav = NoEntry THEN 0 ELSE rav_response.rav))
              ELSE [s1 EXCEPT !.sender_fee_tracker = failed_rav_backoff(@, a),
                              !.adaptive_limiter = on_failure(@)]
    IN  update_sender_fee(s2, a, rav_response.fees)

\* rav_response = [fees, ok, rav]: rav is the RAV's value_aggregate, NoEntry
\* for Ok(None).
finalize_rav_request(s, a, rav_response) ==
    LET s1 == [s EXCEPT !.sender_fee_tracker = finish_rav_request(@, a)]
        s2 == IF rav_response.ok
              THEN update_rav(
                      [s1 EXCEPT !.sender_fee_tracker = ok_rav_request(@, a),
                                 !.adaptive_limiter = on_success(@)],
                      a,
                      IF rav_response.rav = NoEntry THEN 0 ELSE rav_response.rav)
              ELSE [s1 EXCEPT !.sender_fee_tracker = failed_rav_backoff(@, a),
                              !.adaptive_limiter = on_failure(@)]
    IN  update_sender_fee(s2, a, rav_response.fees)

\* match receipt_fees { ... } of the UpdateReceiptFees handler
ApplyReceiptFees(s, a, receipt_fees) ==
    CASE receipt_fees.kind = "NewReceipt" ->
            [(IF s.denied THEN deny_sender(s) ELSE s)
                EXCEPT !.sender_fee_tracker =
                    TrackerAdd(@, a, receipt_fees.value, receipt_fees.fresh)]
      [] receipt_fees.kind = "RavRequestResponse" ->
            finalize_rav_request(s, a, receipt_fees.response)
      [] receipt_fees.kind = "UpdateValue" ->
            update_sender_fee(s, a, receipt_fees.fees)
      [] OTHER -> s

\* The count trigger taken over every receipt, buffered ones included.
counter_with_buffered_receipts(s, a) ==
    /\ s.sender_fee_tracker[a].count >= s.config.rav_request_receipt_limit
    /\ can_trigger_rav(s.sender_fee_tracker, a)

\* counter_greater_receipt_limit: the receipts of a outside the buffer
\* reach the receipt limit and a may be requested.
counter_greater_receipt_limit(s, a) ==
    LET total_counter_for_allocation ==
            get_count_outside_buffer_for_allocation(s.sender_fee_tracker, a)
    IN  /\ total_counter_for_allocation >= s.config.rav_request_receipt_limit
        /\ can_trigger_rav(s.sender_fee_tracker, a)

\* TriggerRavRequests without the has_limit test.
TriggerWithoutLimit(s, a, h) ==
    IF ~s.backoff_info
       /\ get_ravable_total_fee(s.sender_fee_tracker) >= s.config.trigger_value
    THEN rav_request_for_heaviest_allocation(s, h)
    ELSE IF counter_greater_receipt_limit(s, a)
         THEN rav_request_for_allocation(s, a)
         ELSE s

\* if has_available_slots_for_requests { ... }: h is the heaviest
\* allocation the tracker would return.
TriggerRavRequests(s, a, h) ==
    IF ~has_limit(s.adaptive_limiter) THEN s
    ELSE LET total_fee_outside_buffer ==
                 get_ravable_total_fee(s.sender_fee_tracker)
         IN  IF ~s.backoff_info
                /\ total_fee_outside_buffer >= s.config.trigger_value
             THEN rav_request_for_heaviest_allocation(s, h)
             ELSE IF counter_greater_receipt_limit(s, a)
                  THEN rav_request_for_allocation(s, a)
                  ELSE s

\* myself.send_after(retry_interval, UpdateReceiptFees(a, Retry)), kept in
\* scheduled_rav_request
send_after(s, a) ==
    [s EXCEPT !.scheduled_rav_request = a, !.retry_timers = @ + 1]

\* AllowOrRetry that schedules the Retry and never allows.
RetryOnly(s, a) ==
    IF s.denied THEN send_after(s, a) ELSE s

\* match (state.denied, state.deny_condition_reached()) at the end of the
\* UpdateReceiptFees handler
AllowOrRetry(s, a) ==
    CASE s.denied /\ ~deny_condition_reached(s) -> remove_from_denylist(s)
      [] s.denied /\ deny_condition_reached(s) -> send_after(s, a)
      [] OTHER -> s

\* The scheduled Retry is left to fire.
keep_scheduled(s) == s

\* if let Some(scheduled_rav_request) = state.scheduled_rav_request.take()
\* { scheduled_rav_request.abort(); }
abort_scheduled(s) ==
    [s EXCEPT !.scheduled_rav_request = None,
              !.retry_timers = IF s.scheduled_rav_request # None THEN @ - 1 ELSE @]

\* The state before the RAV trigger of the UpdateReceiptFees handler.
BeforeTrigger(s, a, receipt_fees) ==
    DenyIfNeeded(ApplyReceiptFees(abort_scheduled(s), a, receipt_fees))

HandleUpdateReceiptFees(s, a, receipt_fees, h) ==
    AllowOrRetry(TriggerRavRequests(BeforeTrigger(s, a, receipt_fees), a, h), a)

HandleUpdateRav(s, a, value_aggregate) ==
    DenyIfNeeded(update_rav(s, a, value_aggregate))

HandleUpdateInvalidReceiptFees(s, a, value) ==
    DenyIfNeeded([s EXCEPT !.invalid_receipts_tracker = SimpleUpdate(@, a, value)])

\* The handler with the first arm of its final match left out: it denies
\* and never allows.
HandleBalanceDenyOnly(s, new_balance, non_final_last_ravs) ==
    LET keys == {a \in Allocs : non_final_last_ravs[a] # NoEntry}
        active_allocation_ids == s.allocation_ids \cup keys
        tracked_allocation_ids == SimpleList(s.rav_tracker)
        s1 == [s EXCEPT
                 !.sender_balance = new_balance,
                 !.rav_tracker =
                     [a \in Allocs |->
                        IF a \in keys THEN non_final_last_ravs[a]
                        ELSE IF a \in tracked_allocation_ids \ active_allocation_ids
                             THEN NoEntry
                             ELSE @[a]]]
    IN  IF ~s1.denied /\ deny_condition_reached(s1) THEN add_to_denylist(s1) ELSE s1

\* The handler with a reconciliation that keeps only the allocations of
\* the received map.
HandleBalanceRavsOnly(s, new_balance, non_final_last_ravs) ==
    LET keys == {a \in Allocs : non_final_last_ravs[a] # NoEntry}
        tracked_allocation_ids == SimpleList(s.rav_tracker)
        s1 == [s EXCEPT
                 !.sender_balance = new_balance,
                 !.rav_tracker =
                     [a \in Allocs |->
                        IF a \in keys THEN non_final_last_ravs[a]
                        ELSE IF a \in tracked_allocation_ids \ keys
                             THEN NoEntry
                             ELSE @[a]]]
    IN  CASE s1.denied /\ ~deny_condition_reached(s1) -> remove_from_denylist(s1)
          [] ~s1.denied /\ deny_condition_reached(s1) -> add_to_denylist(s1)
          [] OTHER -> s1

\* non_final_last_ravs maps allocations to values, NoEntry where it has
\* no key.
HandleUpdateBalanceAndLastRavs(s, new_balance, non_final_last_ravs) ==
    LET keys == {a \in Allocs : non_final_last_ravs[a] # NoEntry}
        active_allocation_ids == s.allocation_ids \cup keys
        tracked_allocation_ids == SimpleList(s.rav_tracker)
        s1 == [s EXCEPT
                 !.sender_balance = new_balance,
                 !.rav_tracker =
                     [a \in Allocs |->
                        IF a \in keys THEN non_final_last_ravs[a]
                        ELSE IF a \in tracked_allocation_ids \ active_allocation_ids
                             THEN NoEntry
                             ELSE @[a]]]
    IN  CASE s1.denied /\ ~deny_condition_reached(s1) -> remove_from_denylist(s1)
          [] ~s1.denied /\ deny_condition_reached(s1) -> add_to_denylist(s1)
          [] OTHER -> s1

\* ------------------------------------------------------------ inputs
\* UnaggregatedReceipts an Allocation Actor reports: every receipt is
\* worth at least 1.
FeePairs ==
    {[value |-> v, counter |-> c] : v \in Amounts, c \in Amounts} \cap
    {f \in [value : Amounts, counter : Amounts] :
        /\ f.counter <= f.value
        /\ (f.counter = 0) = (f.value = 0)}

ReceiptValues == 1 .. MaxVal

\* Escrow balances the escrow watcher reports.
Balances == {1, 3}

\* value_aggregate of the RAVs reported to the Sender Actor.
RavAmounts == {0, 1, 2}

RavValues == RavAmounts \cup {NoEntry}

\* Invalid receipt fees reported to the Sender Actor.
InvalidAmounts == {0, 1, 2}

\* Allocations outside the set that may still have a non-final last RAV.
ClosedAllocs == {2}

\* ------------------------------------------------------------ actions
\* handle(UpdateReceiptFees(a, receipt_fees)) from state s.
UpdateReceiptFees(s, a, receipt_fees, msg) ==
    \E h \in get_heaviest_allocation_id(
                BeforeTrigger(s, a, receipt_fees).sender_fee_tracker) :
        SetState(HandleUpdateReceiptFees(s, a, receipt_fees, h), msg)

NewReceipt(a, value, fresh) ==
    /\ a \in allocation_ids
    /\ sender_fee_tracker[a].total_fee + value <= MaxVal
    /\ UpdateReceiptFees(State, a,
                         [kind |-> "NewReceipt", value |-> value, fresh |-> fresh],
                         "UpdateReceiptFees")

\* The receipts still inside the buffer are among those the Allocation
\* Actor counted.
UpdateValue(a, fees) ==
    /\ a \in allocation_ids
    /\ fees.counter >= sender_fee_tracker[a].buf_count
    /\ UpdateReceiptFees(State, a, [kind |-> "UpdateValue", fees |-> fees],
                         "UpdateReceiptFees")

\* The Allocation Actor answers one TriggerRavRequest.
RavResponse(a, fees, ok, rav) ==
    /\ trigger_requests[a] > 0
    /\ ok \/ rav = NoEntry
    /\ fees.counter >= sender_fee_tracker[a].buf_count
    /\ UpdateReceiptFees([State EXCEPT !.trigger_requests[a] = @ - 1], a,
                         [kind |-> "RavRequestResponse",
                          response |-> [fees |-> fees, ok |-> ok, rav |-> rav]],
                         "UpdateReceiptFees")

\* The same, in a run whose limiter stays within MaxLimit.
RavRequestResponse(a, fees, ok, rav) ==
    /\ ok => adaptive_limiter.current_limit < MaxLimit
    /\ RavResponse(a, fees, ok, rav)

\* The timer of the scheduled Retry fires and the message is handled; the
\* handle left in scheduled_rav_request is that of a finished task.
Retry ==
    /\ scheduled_rav_request # None
    /\ UpdateReceiptFees([State EXCEPT !.scheduled_rav_request = None,
                                      !.retry_timers = @ - 1],
                         scheduled_rav_request, [kind |-> "Retry"],
                         "UpdateReceiptFees")

UpdateRav(a, value_aggregate) ==
    /\ a \in allocation_ids
    /\ SetState(HandleUpdateRav(State, a, value_aggregate), "UpdateRav")

UpdateInvalidReceiptFees(a, value) ==
    /\ a \in allocation_ids
    /\ SetState(HandleUpdateInvalidReceiptFees(State, a, value),
                "UpdateInvalidReceiptFees")

UpdateBalanceAndLastRavs(new_balance, non_final_last_ravs) ==
    SetState(HandleUpdateBalanceAndLastRavs(State, new_balance, non_final_last_ravs),
             "UpdateBalanceAndLastRavs")

\* Time passes: the oldest buffered receipt of a leaves the buffer.
BufferElapses(a) ==
    /\ sender_fee_tracker[a].buf_count > 0
    /\ SetState([State EXCEPT !.sender_fee_tracker[a].buf_count = @ - 1], last_msg)

\* Time passes: the backoff of a ends.
BackoffElapses(a) ==
    /\ sender_fee_tracker[a].in_backoff
    /\ SetState([State EXCEPT !.sender_fee_tracker[a].in_backoff = FALSE], last_msg)

\* ------------------------------------------------------------ specification
\* pre_start: the state a Sender Actor starts in, for an allocation set, a
\* configuration, the escrow balances and the denylist rows it may find.
SenderInit(ids, cfg, balances, rows) ==
    /\ sender_fee_tracker = [a \in Allocs |-> DefaultStats]
    /\ rav_tracker = [a \in Allocs |-> NoEntry]
    /\ invalid_receipts_tracker = [a \in Allocs |-> NoEntry]
    /\ allocation_ids = ids
    /\ scheduled_rav_request = None
    /\ retry_timers = 0
    /\ denylist \in rows
    /\ denied = denylist
    /\ sender_balance \in balances
    /\ adaptive_limiter = [current_limit |->
                              Min(Max(INITIAL_RAV_REQUEST_CONCURRENT,
                                      LIMIT_RANGE_START), LIMIT_RANGE_END),
                           in_flight |-> 0]
    /\ backoff_info = FALSE
    /\ config = cfg
    /\ sender_allocations = ids
    /\ stopped = [a \in Allocs |-> "no"]
    /\ retry_casts = {}
    /\ trigger_requests = [a \in Allocs |-> 0]
    /\ last_msg = "none"

\* One active allocation, and a closed one whose RAV is not yet final.
Init ==
    /\ SenderInit({1},
               [trigger_value |-> 1, max_amount_willing_to_lose_grt |-> 2,
                rav_request_receipt_limit |-> 2],
               Balances, BOOLEAN)
    /\ AllocInit
    /\ ServiceInit({0})

Next ==
    \/ \E a \in Allocs, value \in ReceiptValues, fresh \in BOOLEAN :
            NewReceipt(a, value, fresh)
    \/ \E a \in Allocs, fees \in FeePairs : UpdateValue(a, fees)
    \/ \E a \in Allocs, fees \in FeePairs, ok \in BOOLEAN, rav \in RavValues :
            RavRequestResponse(a, fees, ok, rav)
    \/ Retry
    \/ \E a \in Allocs, v \in RavAmounts : UpdateRav(a, v)
    \/ \E a \in Allocs, v \in InvalidAmounts : UpdateInvalidReceiptFees(a, v)
    \/ \E b \in Balances, m \in [allocation_ids \cup ClosedAllocs -> RavValues] :
            UpdateBalanceAndLastRavs(b,
                [a \in Allocs |-> IF a \in DOMAIN m THEN m[a] ELSE NoEntry])
    \/ \E a \in Allocs : BufferElapses(a)
    \/ \E a \in Allocs : BackoffElapses(a)

Spec == Init /\ [][Next]_vars

\* Three active allocations of a sender with ample escrow: the RAV
\* requests and their responses.  A successful request aggregates all the
\* fees of its allocation, a failed one none.
LimInit ==
    /\ SenderInit({1, 2, 3},
               [trigger_value |-> 1, max_amount_willing_to_lose_grt |-> 100,
                rav_request_receipt_limit |-> 2],
               {100}, {FALSE})
    /\ AllocInit
    /\ ServiceInit({0})

LimNext ==
    \/ \E a \in Allocs, value \in ReceiptValues : NewReceipt(a, value, FALSE)
    \/ \E a \in Allocs, ok \in BOOLEAN :
            RavRequestResponse(a,
                IF ok THEN [value |-> 0, counter |-> 0]
                ELSE [value |-> sender_fee_tracker[a].total_fee,
                      counter |-> sender_fee_tracker[a].count],
                ok, IF ok THEN 1 ELSE NoEntry)
    \/ \E a \in Allocs : BackoffElapses(a)

LimSpec == LimInit /\ [][LimNext]_vars

\* ------------------------------------------------------------ Allocation Actor
\* The store's rows of one (sender, allocation) and the fields of
\* SenderAllocationState, with the actor's surroundings.
AllocState ==
    [scalar_tap_receipts |-> scalar_tap_receipts,
     scalar_tap_receipts_invalid |-> scalar_tap_receipts_invalid,
     scalar_tap_ravs |-> scalar_tap_ravs,
     scalar_tap_rav_requests_failed |-> scalar_tap_rav_requests_failed,
     inserted |-> inserted,
     unaggregated_fees |-> unaggregated_fees,
     invalid_receipts_fees |-> invalid_receipts_fees,
     latest_rav |-> latest_rav,
     failed_ravs_count |-> failed_ravs_count,
     failed_rav_backoff_running |-> failed_rav_backoff_running,
     failed_rav_backoff_delay |-> failed_rav_backoff_delay,
     now |-> now,
     status |-> status,
     delivered |-> delivered,
     closed_sender_allocations |-> closed_sender_allocations,
     ravs_failed |-> ravs_failed,
     rav_request_receipts |-> rav_request_receipts,
     aggregated |-> aggregated,
     new_value_casts |-> {}]

SetAllocFields(s) ==
    /\ scalar_tap_receipts' = s.scalar_tap_receipts
    /\ scalar_tap_receipts_invalid' = s.scalar_tap_receipts_invalid
    /\ scalar_tap_ravs' = s.scalar_tap_ravs
    /\ scalar_tap_rav_requests_failed' = s.scalar_tap_rav_requests_failed
    /\ inserted' = s.inserted
    /\ unaggregated_fees' = s.unaggregated_fees
    /\ invalid_receipts_fees' = s.invalid_receipts_fees
    /\ latest_rav' = s.latest_rav
    /\ failed_ravs_count' = s.failed_ravs_count
    /\ failed_rav_backoff_running' = s.failed_rav_backoff_running
    /\ failed_rav_backoff_delay' = s.failed_rav_backoff_delay
    /\ now' = s.now
    /\ status' = s.status
    /\ delivered' = s.delivered
    /\ closed_sender_allocations' = s.closed_sender_allocations
    /\ ravs_failed' = s.ravs_failed
    /\ rav_request_receipts' = s.rav_request_receipts
    /\ aggregated' = s.aggregated
    /\ new_value_casts' = s.new_value_casts

SetAllocState(s) == SetAllocFields(s) /\ UNCHANGED added

\* The value a signed receipt carries: receipt k is worth k.
ReceiptValue(signature) == signature

TimestampOf(s, id) == s.inserted[id].timestamp_ns
ValueOf(s, id) == ReceiptValue(s.inserted[id].signature)

\* SUM(value) over receipt rows.
SumValues(s, ids) ==
    SumOver([id \in 1 .. Len(s.inserted) |-> ValueOf(s, id)], ids)

\* MAX over a set of naturals, 0 for none (unwrap_or(0)).
RECURSIVE MaxOf(_)
MaxOf(S) ==
    IF S = {} THEN 0
    ELSE LET x == CHOOSE y \in S : TRUE IN Max(x, MaxOf(S \ {x}))

\* The stored RAV of the pair (RAVRead::last_rav), {} for none.
last_rav(s) == {[timestamp_ns |-> r.timestamp_ns,
                 value_aggregate |-> r.value_aggregate] : r \in s.scalar_tap_ravs}

\* ReceiptRead: the rows with min <= timestamp_ns < max; the limit is unused.
retrieve_receipts_in_timestamp_range(s, min_timestamp_ns, max_timestamp_ns) ==
    {id \in s.scalar_tap_receipts :
        /\ min_timestamp_ns <= TimestampOf(s, id)
        /\ TimestampOf(s, id) < max_timestamp_ns}

\* ReceiptDelete, for the closed range lo ..= hi.
remove_receipts_in_timestamp_range(s, lo, hi) ==
    [s EXCEPT !.scalar_tap_receipts =
        {id \in @ : ~(lo <= TimestampOf(s, id) /\ TimestampOf(s, id) <= hi)}]

\* Manager::remove_obsolete_receipts: the receipts the stored RAV covers.
keep_obsolete_receipts(s) == s

remove_obsolete_receipts(s) ==
    IF last_rav(s) = {} THEN s
    ELSE remove_receipts_in_timestamp_range(s, 0,
            (CHOOSE r \in last_rav(s) : TRUE).timestamp_ns)

\* calculate_unaggregated_fee: MAX(id) and SUM(value) of the receipts newer
\* than the stored RAV, after the obsolete ones are deleted.
calculate_unaggregated_fee(s) ==
    LET d == remove_obsolete_receipts(s)
        newer == {id \in d.scalar_tap_receipts :
                    \A r \in d.scalar_tap_ravs :
                        TimestampOf(d, id) > r.timestamp_ns}
    IN  [d EXCEPT !.unaggregated_fees =
            [value |-> SumValues(d, newer), last_id |-> MaxOf(newer)]]

\* calculate_invalid_receipts_fee: SUM(value) of the invalid rows.
calculate_invalid_receipts_fee(s) ==
    SumOver([id \in 1 .. Len(s.inserted) |->
                ValueOf(s, id) * s.scalar_tap_receipts_invalid[id]],
            1 .. Len(s.inserted))

\* Manager::create_rav_request(timestamp_buffer_ns, limit): the receipts
\* from the stored RAV's timestamp + 1 up to, not including, now - buffer;
\* those failing a check (failed_checks) or repeating the signature of an
\* earlier receipt of the batch are invalid; the expected RAV aggregates
\* the valid ones onto the previous RAV.
create_rav_request(s, timestamp_buffer_ns, failed_checks) ==
    LET previous_rav == last_rav(s)
        min_timestamp_ns ==
            IF previous_rav = {} THEN 0
            ELSE (CHOOSE r \in previous_rav : TRUE).timestamp_ns + 1
        max_timestamp_ns == s.now - timestamp_buffer_ns
        received == retrieve_receipts_in_timestamp_range(
                        s, min_timestamp_ns, max_timestamp_ns)
        invalid == {id \in received :
                      \/ id \in failed_checks
                      \/ \E j \in received :
                            /\ j < id
                            /\ s.inserted[j].signature = s.inserted[id].signature}
        valid == received \ invalid
        previous_value ==
            IF previous_rav = {} THEN 0
            ELSE (CHOOSE r \in previous_rav : TRUE).value_aggregate
    IN  [valid_receipts |-> valid,
         previous_rav |-> previous_rav,
         invalid_receipts |-> invalid,
         expected_rav |->
            IF valid = {} THEN {}   \* Err(NoValidReceiptsForRAVRequest)
            ELSE {[timestamp_ns |-> MaxOf({TimestampOf(s, id) : id \in valid}),
                   value_aggregate |-> previous_value + SumValues(s, valid)]}]

\* What the sender's aggregator may answer to aggregate_receipts.
aggregate_receipts(expected_rav, kind) ==
    CASE kind = "expected" -> expected_rav
      [] kind = "wrong_value" ->
            [expected_rav EXCEPT !.value_aggregate = @ - 1]
      [] kind = "wrong_timestamp" ->
            [expected_rav EXCEPT !.timestamp_ns = @ - 1]

\* RAVStore::update_last_rav: the upsert of the pair's row; `last` is kept.
update_last_rav(s, rav) ==
    [s EXCEPT !.scalar_tap_ravs =
        {[timestamp_ns |-> rav.timestamp_ns,
          value_aggregate |-> rav.value_aggregate,
          last |-> \E r \in s.scalar_tap_ravs : r.last]}]

\* Manager::verify_and_store_rav: TRUE iff the received RAV is the expected
\* one.
store_any_rav(expected_rav, received_rav) == TRUE

rav_is_verified(expected_rav, received_rav) == received_rav = expected_rav

store_invalid_receipts(s, receipts) ==
    [s EXCEPT
        !.scalar_tap_receipts_invalid =
            [id \in DOMAIN @ |-> IF id \in receipts THEN @[id] + 1 ELSE @[id]],
        !.invalid_receipts_fees = @ + SumValues(s, receipts)]

\* store_failed_rav that records nothing.
drop_failed_rav(s) == s

store_failed_rav(s) ==
    [s EXCEPT !.scalar_tap_rav_requests_failed = @ + 1]

\* rav_requester_single: the state it leaves and its result, "Ok",
\* "AllReceiptsInvalid" or "Err".
rav_requester_single(s, failed_checks, kind) ==
    LET req == create_rav_request(s, RAV_REQUEST_TIMESTAMP_BUFFER, failed_checks)
        expected_rav == CHOOSE r \in req.expected_rav : TRUE
        response == aggregate_receipts(expected_rav, kind)
        lo == CHOOSE t \in {TimestampOf(s, id) : id \in req.invalid_receipts} :
                \A id \in req.invalid_receipts : t <= TimestampOf(s, id)
        hi == MaxOf({TimestampOf(s, id) : id \in req.invalid_receipts})
        asked == [s EXCEPT !.rav_request_receipts = req.valid_receipts]
        logged == IF req.invalid_receipts = {} THEN asked
                  ELSE store_invalid_receipts(asked, req.invalid_receipts)
    IN  CASE req.expected_rav = {} /\ req.invalid_receipts # {} ->
                [state |-> remove_receipts_in_timestamp_range(
                               store_invalid_receipts(s, req.invalid_receipts),
                               lo, hi),
                 result |-> "AllReceiptsInvalid", rav |-> {}]
          [] req.expected_rav = {} /\ req.invalid_receipts = {} ->
                [state |-> s, result |-> "Err", rav |-> {}]
          [] req.expected_rav # {} /\ kind = "timeout" ->
                [state |-> asked, result |-> "Err", rav |-> {}]
          [] req.expected_rav # {} /\ kind # "timeout"
                /\ rav_is_verified(expected_rav, response) ->
                [state |-> [update_last_rav(logged, response) EXCEPT
                               !.aggregated =
                                    [id \in DOMAIN @ |->
                                        IF id \in req.valid_receipts
                                        THEN @[id] + 1 ELSE @[id]]],
                 result |-> "Ok", rav |-> {response}]
          [] OTHER ->
                [state |-> store_failed_rav(logged), result |-> "Err", rav |-> {}]

\* (Duration::from_millis(100) * 2u32.pow(failed_ravs_count))
\*     .max(Duration::from_secs(60)), in ms.  2u32.pow overflows from 32 on;
\* the runs of the model stay below.
backoff_delay(n) == Max(100 * 2 ^ n, 60000)

\* request_rav that recomputes the fees on success only.
request_rav_recompute_on_ok(s, failed_checks, kind) ==
    LET r == rav_requester_single(s, failed_checks, kind)
    IN  IF r.result = "Ok"
        THEN [calculate_unaggregated_fee(r.state) EXCEPT
                !.latest_rav = r.rav,
                !.failed_ravs_count = 0]
        ELSE [r.state EXCEPT
                !.ravs_failed = @ + 1,
                !.failed_rav_backoff_running = TRUE,
                !.failed_rav_backoff_delay = backoff_delay(s.failed_ravs_count),
                !.failed_ravs_count = @ + 1]

\* request_rav: on success the fees are recomputed from the store, on
\* failure only when every receipt was invalid; a failure starts a backoff.
request_rav(s, failed_checks, kind) ==
    LET r == rav_requester_single(s, failed_checks, kind)
    IN  IF r.result = "Ok"
        THEN [calculate_unaggregated_fee(r.state) EXCEPT
                !.latest_rav = r.rav,
                !.failed_ravs_count = 0]
        ELSE [(IF r.result = "AllReceiptsInvalid"
               THEN calculate_unaggregated_fee(r.state) ELSE r.state) EXCEPT
                !.ravs_failed = @ + 1,
                !.failed_rav_backoff_running = TRUE,
                !.failed_rav_backoff_delay = backoff_delay(s.failed_ravs_count),
                !.failed_ravs_count = @ + 1]

RequestFails(s, failed_checks, kind) ==
    rav_requester_single(s, failed_checks, kind).result # "Ok"

\* UPDATE scalar_tap_ravs SET last = true: zero rows updated is accepted.
leave_rav_unmarked(s) == s

mark_rav_last(s) ==
    [s EXCEPT !.scalar_tap_ravs = {[r EXCEPT !.last = TRUE] : r \in @}]

\* ------------------------------------------------------------ Allocation Actor: actions
\* TimestampCheck::check of the service, for a receipt arriving now.
timestamp_check(s, receipt_timestamp) ==
    LET min_timestamp == s.now - TIMESTAMP_ERROR_TOLERANCE
        max_timestamp == s.now + TIMESTAMP_ERROR_TOLERANCE
    IN  receipt_timestamp < max_timestamp /\ receipt_timestamp > min_timestamp

\* The receipts a client may send: a new one, signed at some time, or
\* once more one that was sent before.
Arriving(s) ==
    {[signature |-> MaxOf({s.inserted[j].signature : j \in 1 .. Len(s.inserted)}) + 1,
      timestamp_ns |-> t] : t \in 0 .. MaxNow}
        \cup {s.inserted[j] : j \in 1 .. Len(s.inserted)}

\* The service stores a receipt that passed its checks; the row's insert
\* raises the notification the Allocation Actor gets as NewReceipt.
StoreReceipt(receipt) ==
    /\ status = "running"
    /\ Len(inserted) < MaxReceipts
    /\ timestamp_check(AllocState, receipt.timestamp_ns)
    /\ SetAllocState([AllocState EXCEPT
            !.inserted = Append(@, receipt),
            !.scalar_tap_receipts = @ \cup {Len(inserted) + 1}])
    /\ UNCHANGED << senderVars, serviceVars, gateVars >>

\* u128 addition that wraps.
wrapping_add(a, b) == {(a + b) % (U128_MAX + 1)}

\* u128::checked_add: {} is None.
checked_add(a, b) == IF a + b > U128_MAX THEN {} ELSE {a + b}

\* handle(NewReceipt(id, value)).
HandleNewReceipt(s, id, fees) ==
    IF id > s.unaggregated_fees.last_id
    THEN LET sum == checked_add(s.unaggregated_fees.value, fees)
             new == [value |-> IF sum = {} THEN U128_MAX
                               ELSE CHOOSE v \in sum : TRUE,
                     last_id |-> id]
         IN  [s EXCEPT !.unaggregated_fees = new,
                       !.new_value_casts = {new}]
    ELSE s

AllocNewReceipt ==
    /\ status = "running"
    /\ delivered < Len(inserted)
    /\ SetAllocState([HandleNewReceipt(AllocState, delivered + 1,
                                        ValueOf(AllocState, delivered + 1))
                        EXCEPT !.delivered = @ + 1])
    /\ UNCHANGED << senderVars, serviceVars, gateVars >>

\* handle(TriggerRAVRequest).
HandleTriggerRAVRequest(s, failed_checks, kind) ==
    IF s.unaggregated_fees.value > 0 /\ ~s.failed_rav_backoff_running
    THEN request_rav(s, failed_checks, kind)
    ELSE s

TriggerRAVRequest(failed_checks, kind) ==
    /\ status = "running"
    /\ RequestFails(AllocState, failed_checks, kind)
            => ravs_failed < MaxFailed
    /\ SetAllocState(HandleTriggerRAVRequest(AllocState, failed_checks, kind))
    /\ UNCHANGED << senderVars, serviceVars, gateVars >>

\* The clock advances.
Tick ==
    /\ now < MaxNow
    /\ SetAllocState([AllocState EXCEPT !.now = @ + 1])
    /\ UNCHANGED << senderVars, serviceVars, gateVars >>

\* Time passes: Instant::now() > failed_rav_backoff.
BackoffEnds ==
    /\ failed_rav_backoff_running
    /\ SetAllocState([AllocState EXCEPT !.failed_rav_backoff_running = FALSE,
                                        !.failed_rav_backoff_delay = 0])
    /\ UNCHANGED << senderVars, serviceVars, gateVars >>

\* The Sender Actor stops the actor of an allocation that was closed;
\* post_stop begins and the mailbox is dropped.
Stop ==
    /\ status = "running"
    /\ SetAllocState([AllocState EXCEPT !.status = "closing"])
    /\ UNCHANGED << senderVars, serviceVars, gateVars >>

\* post_stop, one turn of `while unaggregated_fees.value > 0`: a failed
\* request is followed by a sleep of 30 s.
PostStopRequestRav(failed_checks, kind) ==
    /\ status = "closing"
    /\ unaggregated_fees.value > 0
    /\ RequestFails(AllocState, failed_checks, kind)
            => ravs_failed < MaxFailed
    /\ SetAllocState([request_rav(AllocState, failed_checks, kind) EXCEPT
            !.status = IF RequestFails(AllocState, failed_checks, kind)
                       THEN "sleeping" ELSE "closing"])
    /\ UNCHANGED << senderVars, serviceVars, gateVars >>

\* The 30 s have passed.
PostStopSleepEnds ==
    /\ status = "sleeping"
    /\ SetAllocState([AllocState EXCEPT !.status = "closing"])
    /\ UNCHANGED << senderVars, serviceVars, gateVars >>

\* post_stop once the loop is left: mark_rav_last, count the allocation as
\* closed, terminate.
MarkWhileFeesPending(s) == TRUE

post_stop_loop_left(s) == s.unaggregated_fees.value = 0

PostStopMarkRavLast ==
    /\ status = "closing"
    /\ post_stop_loop_left(AllocState)
    /\ SetAllocState([mark_rav_last(AllocState) EXCEPT
            !.closed_sender_allocations = @ + 1,
            !.status = "stopped"])
    /\ UNCHANGED << senderVars, serviceVars, gateVars >>

\* pre_start of a new actor for the allocation, after the old one failed:
\* SenderAllocationState::new and the two sums over the store.
pre_start(s) ==
    [calculate_unaggregated_fee(s) EXCEPT
        !.latest_rav = last_rav(s),
        !.failed_ravs_count = 0,
        !.failed_rav_backoff_running = FALSE,
        !.failed_rav_backoff_delay = 0,
        !.invalid_receipts_fees = calculate_invalid_receipts_fee(s),
        !.delivered = Len(s.inserted)]

Restart ==
    /\ status = "running"
    /\ SetAllocState(pre_start(AllocState))
    /\ UNCHANGED << senderVars, serviceVars, gateVars >>

\* ------------------------------------------------------------ Allocation Actor: specification
Responses == {"expected", "wrong_value", "wrong_timestamp", "timeout"}

AllocSpecInit ==
    /\ SenderInit({1},
                  [trigger_value |-> 1, max_amount_willing_to_lose_grt |-> 2,
                   rav_request_receipt_limit |-> 2],
                  {3}, {FALSE})
    /\ AllocInit
    /\ ServiceInit({0})

AllocNext ==
    \/ \E receipt \in Arriving(AllocState) : StoreReceipt(receipt)
    \/ AllocNewReceipt
    \/ \E failed_checks \in SUBSET scalar_tap_receipts, kind \in Responses :
            TriggerRAVRequest(failed_checks, kind)
    \/ Tick
    \/ BackoffEnds
    \/ Stop
    \/ \E failed_checks \in SUBSET scalar_tap_receipts, kind \in Responses :
            PostStopRequestRav(failed_checks, kind)
    \/ PostStopSleepEnds
    \/ PostStopMarkRavLast
    \/ Restart

AllocSpec == AllocSpecInit /\ [][AllocNext]_vars

\* ------------------------------------------------------------ properties
\* The sums of the deny condition, as the claims state them.
PendingRavs == SimpleTotal(rav_tracker)
UnaggregatedFees == get_total_fee(sender_fee_tracker)
InvalidReceiptFees == SimpleTotal(invalid_receipts_tracker)
EscrowExhausted == PendingRavs + UnaggregatedFees >= sender_balance
ToleranceExceeded ==
    UnaggregatedFees + InvalidReceiptFees >= config.max_amount_willing_to_lose_grt

\* C1: once the Sender Actor has handled an UpdateReceiptFees, UpdateRav,
\* UpdateInvalidReceiptFees or UpdateBalanceAndLastRavs message, the sender
\* is denied if pending RAVs plus unaggregated fees reach the balance or
\* unaggregated plus invalid fees reach max_amount_willing_to_lose.
DenyTrigger ==
    last_msg \in {"UpdateReceiptFees", "UpdateRav", "UpdateInvalidReceiptFees",
                  "UpdateBalanceAndLastRavs"}
        => ((EscrowExhausted \/ ToleranceExceeded) => denied)

\* An UpdateRav made the RAVs alone reach the balance and the sender is
\* denied.
DenyTriggerWitness ==
    /\ last_msg = "UpdateRav"
    /\ PendingRavs >= sender_balance
    /\ UnaggregatedFees = 0
    /\ ~ToleranceExceeded
    /\ denied

Outstanding == SumOver(trigger_requests, Allocs)

\* C4 as stated: the outstanding RAV requests never exceed the limiter's
\* current capacity.
ConcurrencyBound == Outstanding <= adaptive_limiter.current_limit

\* C4 amended: the number of outstanding RAV requests grows only within
\* the limiter's current capacity.
ConcurrencyGrowsWithinLimit ==
    [][Outstanding' > Outstanding
          => Outstanding' <= adaptive_limiter'.current_limit]_vars

\* Three requests outstanding under a capacity of three.
ConcurrencyWitness ==
    /\ Outstanding = 3
    /\ adaptive_limiter.current_limit = 3

\* The Sender Actor of one allocation with ample escrow next to the
\* Allocation Actor of an allocation: receipts arrive at both, inside or
\* outside the buffer, time passes, and RAV requests are made.
BufInit ==
    /\ SenderInit({1},
                  [trigger_value |-> 1, max_amount_willing_to_lose_grt |-> 100,
                   rav_request_receipt_limit |-> 2],
                  {100}, {FALSE})
    /\ AllocInit
    /\ ServiceInit({0})

BufNext ==
    \/ \E value \in ReceiptValues, fresh \in BOOLEAN : NewReceipt(1, value, fresh)
    \/ BufferElapses(1)
    \/ \E receipt \in Arriving(AllocState) : StoreReceipt(receipt)
    \/ AllocNewReceipt
    \/ TriggerRAVRequest({}, "expected")
    \/ Tick

BufSpec == BufInit /\ [][BufNext]_vars

\* ------------------------------------------------------------ properties: Allocation Actor
\* No handler is running and every notification has been handled.
Quiescent == status = "running" /\ delivered = Len(inserted)

\* The stored pending receipts newer than the stored RAV.
PendingReceipts ==
    {id \in scalar_tap_receipts :
        \A r \in scalar_tap_ravs : TimestampOf(AllocState, id) > r.timestamp_ns}

\* C5 -- Receipt conservation: whenever the Allocation Actor is quiescent,
\* unaggregated_fees.value equals the sum of the values of the stored
\* pending receipts newer than the stored RAV (all of them when there is
\* no RAV).
ReceiptConservation ==
    Quiescent => unaggregated_fees.value = SumValues(AllocState, PendingReceipts)

Rows == 1 .. Len(inserted)
SameSigned(i, j) == inserted[i].signature = inserted[j].signature

StoredRav == last_rav(AllocState)

\* C7 -- RAV monotonicity: a RAV that gets stored has a timestamp strictly
\* greater than, and an aggregate no smaller than, the RAV stored before
\* it, and it is the expected RAV of its request: the previous aggregate
\* plus the values of the receipts sent, at the largest of their
\* timestamps.
RavMonotonic ==
    [][StoredRav' # StoredRav =>
        \A n \in StoredRav' :
            /\ \A r \in StoredRav :
                    /\ n.timestamp_ns > r.timestamp_ns
                    /\ n.value_aggregate >= r.value_aggregate
            /\ rav_request_receipts' # {}
            /\ n.timestamp_ns =
                    MaxOf({TimestampOf(AllocState, id) : id \in rav_request_receipts'})
            /\ n.value_aggregate =
                    SumOver([r \in StoredRav |-> r.value_aggregate], StoredRav)
                        + SumValues(AllocState, rav_request_receipts')]_vars

\* Two RAVs were stored, the second one for receipt 2 alone on top of the
\* one that included receipt 1, and a response was rejected on the way.
RavMonotonicWitness ==
    /\ Len(inserted) >= 2
    /\ aggregated[1] = 1 /\ aggregated[2] = 1
    /\ rav_request_receipts = {2}
    /\ scalar_tap_rav_requests_failed > 0
    /\ \E r \in scalar_tap_ravs :
            r.value_aggregate = ValueOf(AllocState, 1) + ValueOf(AllocState, 2)

LastRavs == {r \in scalar_tap_ravs : r.last}

\* C8, as claimed -- after a graceful stop exactly one RAV row of the pair
\* has last = true, whatever the allocation had pending or stored.
FinalRavExactlyOnce == status = "stopped" => Cardinality(LastRavs) = 1

\* C8, amended -- after a graceful stop the pair has at most one RAV row
\* and that row has last = true; when no RAV was ever stored for the pair
\* there is no row to mark and the actor stops all the same.  No row is
\* marked before the stop.
FinalRavWhenStored ==
    /\ Cardinality(scalar_tap_ravs) <= 1
    /\ status = "stopped" => LastRavs = scalar_tap_ravs
    /\ LastRavs # {} => status = "stopped"

\* A stopped actor whose allocation has its RAV marked last.
FinalRavWitness ==
    /\ status = "stopped"
    /\ Cardinality(LastRavs) = 1
    /\ closed_sender_allocations = 1

\* C9 -- Graceful close ordering: while unaggregated_fees > 0 a closing
\* actor has not marked the RAV last, has not counted the allocation as
\* closed and has not terminated; so the RAV is marked last only once the
\* fees are 0.  While fees remain, the only step post_stop takes is
\* another RAV request, or the end of the sleep after a failed one.
CloseOrdering ==
    /\ unaggregated_fees.value > 0 =>
            /\ LastRavs = {}
            /\ closed_sender_allocations = 0
            /\ status # "stopped"
    /\ status = "sleeping" => failed_ravs_count > 0

\* post_stop sleeps after a failed request, the fees still pending and
\* nothing marked or counted.
CloseOrderingWitness ==
    /\ status = "sleeping"
    /\ unaggregated_fees.value > 0
    /\ LastRavs = {}
    /\ closed_sender_allocations = 0

\* The fees that are outside the buffer: those of the allocations with
\* no receipt inside it.
FeesOutsideBuffer(t) ==
    SumOver([a \in Allocs |-> IF t[a].buf_count = 0 THEN t[a].total_fee ELSE 0],
            Allocs)

\* C10 -- Buffer respect: no receipt with a timestamp newer than now minus
\* the RAV request buffer is among the receipts of a RAV request; and the
\* Sender Actor sends a RAV request for an allocation only if a receipt of
\* it is outside the buffer, and only if the fees outside the buffer
\* reach trigger_value or the allocation's receipts outside the buffer
\* reach the receipt limit -- so a single receipt worth trigger_value or
\* more triggers nothing while it is inside the buffer.
BufferRespect ==
    /\ [](\A id \in rav_request_receipts :
            ~(TimestampOf(AllocState, id) > now - RAV_REQUEST_TIMESTAMP_BUFFER))
    /\ [][\A a \in Allocs :
            trigger_requests'[a] > trigger_requests[a] =>
                /\ get_count_outside_buffer_for_allocation(
                        sender_fee_tracker', a) >= 1
                /\ \/ FeesOutsideBuffer(sender_fee_tracker') >= config.trigger_value
                   \/ get_count_outside_buffer_for_allocation(
                          sender_fee_tracker', a)
                            >= config.rav_request_receipt_limit]_vars

\* A single receipt worth trigger_value sits inside the Sender Actor's
\* buffer and no request has been sent; the Allocation Actor has made a
\* RAV request and holds a stored receipt that is inside the buffer.
BufferRespectWitness ==
    /\ sender_fee_tracker[1].count = 1
    /\ sender_fee_tracker[1].buf_count = 1
    /\ sender_fee_tracker[1].total_fee >= config.trigger_value
    /\ trigger_requests[1] = 0
    /\ rav_request_receipts # {}
    /\ \E id \in scalar_tap_receipts :
            TimestampOf(AllocState, id) > now - RAV_REQUEST_TIMESTAMP_BUFFER

\* ------------------------------------------------------------ properties: RAV triggers
\* Two active allocations of a sender with ample escrow and a trigger value
\* above what one allocation holds: receipts arrive inside or outside the
\* buffer, time passes, requests succeed (all the fees of the allocation
\* aggregated) or fail (none), and the sender is denied at times, which
\* schedules Retry messages.
TrigAllocs == {1, 2}

TrigInit ==
    /\ SenderInit(TrigAllocs,
                  [trigger_value |-> 3, max_amount_willing_to_lose_grt |-> 4,
                   rav_request_receipt_limit |-> 2],
                  {100}, {FALSE})
    /\ AllocInit
    /\ ServiceInit({0})

TrigNext ==
    \/ \E a \in TrigAllocs, value \in ReceiptValues, fresh \in BOOLEAN :
            NewReceipt(a, value, fresh)
    \/ \E a \in TrigAllocs, ok \in BOOLEAN :
            RavRequestResponse(a,
                IF ok THEN [value |-> 0, counter |-> 0]
                ELSE [value |-> sender_fee_tracker[a].total_fee,
                      counter |-> sender_fee_tracker[a].count],
                ok, IF ok THEN 1 ELSE NoEntry)
    \/ Retry
    \/ \E a \in TrigAllocs : BufferElapses(a)
    \/ \E a \in TrigAllocs : BackoffElapses(a)

TrigSpec == TrigInit /\ [][TrigNext]_vars

\* The UpdateReceiptFees messages an allocation's actor, or the Retry
\* timer, may send in the current state.
ReceiptFeesMessages(a) ==
    {[kind |-> "Retry"]}
    \cup {[kind |-> "NewReceipt", value |-> v, fresh |-> f] :
              v \in ReceiptValues, f \in BOOLEAN}
    \cup {[kind |-> "UpdateValue", fees |-> f] :
              f \in {g \in FeePairs : g.counter >= sender_fee_tracker[a].buf_count}}

\* The TriggerRavRequest messages sent to b between two states of a handler.
SentTo(s1, s2, b) == s2.trigger_requests[b] - s1.trigger_requests[b]

\* The allocations a request may go to: not blocked, not requesting, not
\* backing off, and with fees outside the buffer.
Eligible(t) == {b \in Allocs : IsCandidate(t, b) /\ t[b].total_fee > 0}

TriggerByCount ==
    \A a \in allocation_ids : \A receipt_fees \in ReceiptFeesMessages(a) :
        LET s1 == BeforeTrigger(State, a, receipt_fees)
            t == s1.sender_fee_tracker
        IN  /\ has_limit(s1.adaptive_limiter)
            /\ get_ravable_total_fee(t) < s1.config.trigger_value
            /\ get_count_outside_buffer_for_allocation(t, a)
                   >= s1.config.rav_request_receipt_limit
            /\ can_trigger_rav(t, a)
            => \A h \in get_heaviest_allocation_id(t) :
                   LET s2 == HandleUpdateReceiptFees(State, a, receipt_fees, h)
                   IN  \A b \in Allocs : SentTo(s1, s2, b) = IF b = a THEN 1 ELSE 0

\* The first request of a run, in flight for an allocation whose receipts
\* outside the buffer reach the limit while all the fees of the sender
\* stay below trigger_value.
TriggerByCountWitness ==
    /\ last_msg = "UpdateReceiptFees"
    /\ adaptive_limiter = [current_limit |-> INITIAL_RAV_REQUEST_CONCURRENT,
                           in_flight |-> 1]
    /\ \E a \in allocation_ids :
          /\ trigger_requests[a] = 1
          /\ sender_fee_tracker[a].requesting
          /\ sender_fee_tracker[a].buf_count = 0
          /\ sender_fee_tracker[a].count >= config.rav_request_receipt_limit
          /\ \A b \in Allocs \ {a} : trigger_requests[b] = 0
    /\ get_total_fee(sender_fee_tracker) < config.trigger_value

\* ------------------------------------------------------------ properties: failed RAV requests
\* The TriggerRAVRequest handler makes a RAV request in the current state.
Requests == status = "running" /\ unaggregated_fees.value > 0
            /\ ~failed_rav_backoff_running

\* The answers of the aggregator that fail verification.
Unverified == {"wrong_value", "wrong_timestamp"}

\* C13 RAV verification failure: when the aggregator's response fails
\* verification, exactly one row is written to rav_requests_failed, no
\* pending receipt is deleted, unaggregated_fees and latest_rav are
\* unchanged, the request counts as failed with backoff, and the actor
\* keeps running.
VerificationFailure ==
    \A failed_checks \in SUBSET scalar_tap_receipts, kind \in Unverified :
        LET s == AllocState
            req == create_rav_request(s, RAV_REQUEST_TIMESTAMP_BUFFER, failed_checks)
            s2 == HandleTriggerRAVRequest(s, failed_checks, kind)
        IN  Requests /\ req.expected_rav # {} =>
                /\ s2.scalar_tap_rav_requests_failed
                       = s.scalar_tap_rav_requests_failed + 1
                /\ s2.scalar_tap_receipts = s.scalar_tap_receipts
                /\ s2.scalar_tap_ravs = s.scalar_tap_ravs
                /\ s2.unaggregated_fees = s.unaggregated_fees
                /\ s2.latest_rav = s.latest_rav
                /\ s2.failed_ravs_count = s.failed_ravs_count + 1
                /\ s2.failed_rav_backoff_running
                /\ s2.status = "running"

\* A failed RAV is on record while its receipts are still pending, their
\* fees still counted, no RAV stored, and the actor runs in backoff.
VerificationFailureWitness ==
    /\ scalar_tap_rav_requests_failed = 1
    /\ ravs_failed = 1
    /\ scalar_tap_receipts # {}
    /\ unaggregated_fees.value > 0
    /\ scalar_tap_ravs = {}
    /\ latest_rav = {}
    /\ failed_rav_backoff_running
    /\ status = "running"

\* The receipts of s whose timestamp lies between the least and the
\* greatest timestamp of the receipts in ids.
InWindow(s, ids) ==
    {id \in s.scalar_tap_receipts :
        /\ \E i \in ids : TimestampOf(s, i) <= TimestampOf(s, id)
        /\ \E i \in ids : TimestampOf(s, id) <= TimestampOf(s, i)}

\* C14 All receipts invalid: when every receipt selected for a RAV request
\* fails its checks, the aggregator is not called, each of those receipts
\* is inserted into receipts_invalid, the pending receipts with a timestamp
\* in [min_ts, max_ts] of the invalid set are deleted, the outcome is
\* AllReceiptsInvalid, and unaggregated_fees is recomputed from the store
\* (0 when nothing else is pending).
AllReceiptsInvalid ==
    \A failed_checks \in SUBSET scalar_tap_receipts, kind \in Responses :
        LET s == AllocState
            req == create_rav_request(s, RAV_REQUEST_TIMESTAMP_BUFFER, failed_checks)
            invalid == req.invalid_receipts
            s2 == HandleTriggerRAVRequest(s, failed_checks, kind)
        IN  Requests /\ req.valid_receipts = {} /\ invalid # {} =>
                /\ rav_requester_single(s, failed_checks, kind).result
                       = "AllReceiptsInvalid"
                /\ s2.rav_request_receipts = s.rav_request_receipts
                /\ s2.aggregated = s.aggregated
                /\ s2.scalar_tap_ravs = s.scalar_tap_ravs
                /\ \A id \in invalid :
                       s2.scalar_tap_receipts_invalid[id]
                           = s.scalar_tap_receipts_invalid[id] + 1
                /\ s2.scalar_tap_receipts \cap InWindow(s, invalid) = {}
                /\ s2.unaggregated_fees.value
                       = SumValues(s2, s2.scalar_tap_receipts)
                /\ s2.scalar_tap_receipts = {} => s2.unaggregated_fees.value = 0

\* Every pending receipt was read as invalid: all are on record in
\* receipts_invalid, none is pending, none was sent to the aggregator and
\* the fees are back to 0.
AllReceiptsInvalidWitness ==
    /\ Len(inserted) >= 2
    /\ \A id \in 1 .. Len(inserted) :
          scalar_tap_receipts_invalid[id] = 1 /\ aggregated[id] = 0
    /\ scalar_tap_receipts = {}
    /\ scalar_tap_ravs = {}
    /\ ravs_failed = 1
    /\ unaggregated_fees.value = 0
    /\ status = "running"

\* C15 Allocation backoff: after the n-th consecutive failed RAV request
\* (n = 0, 1, 2, ...) the actor refuses triggered RAV requests for a delay
\* of min(100 ms x 2^n, 60 s), never more than 60 s, and a successful RAV
\* request resets n to 0.
AllocationBackoff ==
    /\ [](/\ failed_rav_backoff_delay <= 60000
          /\ failed_rav_backoff_running =>
                 failed_rav_backoff_delay
                     = Min(100 * 2 ^ (failed_ravs_count - 1), 60000))
    /\ [][scalar_tap_ravs' # scalar_tap_ravs => failed_ravs_count' = 0]_vars

\* ------------------------------------------------------------ Sender Actor: the allocation set
\* SenderFeeTracker::block_allocation_id
block_allocation_id(t, a) == [t EXCEPT ![a].blocked = TRUE]

\* SenderFeeTracker::remove: the fees of a are dropped; a block is for good.
TrackerRemove(t, a) == [t EXCEPT ![a] = [DefaultStats EXCEPT !.blocked = t[a].blocked]]

\* sender_handle.stop(None): the actor of a is told to stop.
stop(s, a) ==
    [s EXCEPT !.stopped[a] =
        IF s.sender_fee_tracker[a].blocked THEN "blocked" ELSE "unblocked"]

\* create_sender_allocation for every allocation of ids; spawned holds
\* those whose actor starts.  The name of a registered actor is taken.
create_sender_allocation(s, ids, spawned) ==
    [s EXCEPT !.sender_allocations = @ \cup ((ids \cap spawned) \ @)]

\* check_closed_allocations that takes a failed query for "all closed".
closed_unless_answered(allocation_ids_asked, response) ==
    IF allocation_ids_asked = {} THEN {}
    ELSE IF response.err THEN allocation_ids_asked
    ELSE allocation_ids_asked \cap response.closed

\* check_closed_allocations(...).unwrap_or_default(): those of the
\* allocations asked about that the network subgraph reports closed, none
\* when the query fails.
check_closed_allocations(allocation_ids_asked, response) ==
    IF allocation_ids_asked = {} THEN {}
    ELSE IF response.err THEN {}
    ELSE allocation_ids_asked \cap response.closed

\* One round of the loop "Remove sender allocations".
RemoveSenderAllocation(s, a) ==
    IF a \in s.sender_allocations
    THEN [stop([s EXCEPT !.sender_fee_tracker = block_allocation_id(@, a)], a)
            EXCEPT !.allocation_ids = @ \ {a}]
    ELSE s

RECURSIVE RemoveSenderAllocations(_, _)
RemoveSenderAllocations(s, closed) ==
    IF closed = {} THEN s
    ELSE LET a == CHOOSE x \in closed : TRUE
         IN  RemoveSenderAllocations(RemoveSenderAllocation(s, a), closed \ {a})

HandleUpdateAllocationIds(s, new_allocation_ids, spawned, response) ==
    LET wanted == new_allocation_ids \ s.allocation_ids
        created == (wanted \cap spawned) \ s.sender_allocations
        possibly_closed_allocations == s.allocation_ids \ new_allocation_ids
        really_closed ==
            check_closed_allocations(possibly_closed_allocations, response)
        s1 == [create_sender_allocation(s, wanted, spawned)
                  EXCEPT !.allocation_ids = @ \cup created]
    IN  RemoveSenderAllocations(s1, possibly_closed_allocations \cap really_closed)

HandleNewAllocationId(s, a, spawned) ==
    [create_sender_allocation(s, {a}, spawned)
        EXCEPT !.allocation_ids = @ \cup {a}]

\* The handler without sender_fee_tracker.remove: the fees of the
\* terminated actor stay tracked.
terminated_keeps_fees(s, a) == [s EXCEPT !.retry_casts = @ \cup {a}]

\* handle_supervisor_evt(ActorTerminated): the fees of the allocation are
\* dropped and a Retry is cast to myself.
HandleActorTerminated(s, a) ==
    [s EXCEPT !.sender_fee_tracker = TrackerRemove(@, a),
              !.retry_casts = @ \cup {a}]

\* What the network subgraph may answer to the closed allocations query.
ClosedResponses ==
    {[err |-> FALSE, closed |-> C] : C \in SUBSET TrigAllocs}
    \cup {[err |-> TRUE, closed |-> {}]}

UpdateAllocationIds(new_allocation_ids, spawned, response) ==
    /\ response \in ClosedResponses
    /\ SetState(HandleUpdateAllocationIds(State, new_allocation_ids, spawned,
                                           response),
                "UpdateAllocationIds")

\* The manager casts NewAllocationId when it finds no actor for the
\* allocation of a receipt.
NewAllocationId(a, spawned) ==
    /\ a \notin sender_allocations
    /\ SetState(HandleNewAllocationId(State, a, spawned), "NewAllocationId")

\* The actor of a, told to stop, has left post_stop: its name is free and
\* the Sender Actor handles the supervision event.
ActorTerminated(a) ==
    /\ stopped[a] # "no"
    /\ a \in sender_allocations
    /\ SetState(HandleActorTerminated(
                    [State EXCEPT !.sender_allocations = @ \ {a},
                                  !.stopped[a] = "no"], a),
                "ActorTerminated")

\* A Retry cast to myself is handled.
RetryCast(a) ==
    /\ a \in retry_casts
    /\ UpdateReceiptFees([State EXCEPT !.retry_casts = @ \ {a}], a,
                         [kind |-> "Retry"], "UpdateReceiptFees")

\* The allocations of a sender with ample escrow come and go: the set is
\* updated, actors start or fail to start, are told to stop when their
\* allocation is confirmed closed, and terminate; receipts arrive from the
\* running actors and RAV requests succeed.
IdsInit ==
    /\ SenderInit({1},
                  [trigger_value |-> 3, max_amount_willing_to_lose_grt |-> 100,
                   rav_request_receipt_limit |-> 2],
                  {100}, {FALSE})
    /\ AllocInit
    /\ ServiceInit({0})

IdsNext ==
    \/ \E new_allocation_ids \in SUBSET TrigAllocs, spawned \in SUBSET TrigAllocs,
          response \in ClosedResponses :
            UpdateAllocationIds(new_allocation_ids, spawned, response)
    \/ \E a \in TrigAllocs, spawned \in SUBSET TrigAllocs : NewAllocationId(a, spawned)
    \/ \E a \in TrigAllocs : ActorTerminated(a)
    \/ \E a \in TrigAllocs : RetryCast(a)
    \/ \E a \in TrigAllocs :
            /\ a \in sender_allocations
            /\ stopped[a] = "no"
            /\ NewReceipt(a, 1, FALSE)
    \/ \E a \in TrigAllocs :
            RavRequestResponse(a, [value |-> 0, counter |-> 0], TRUE, 1)

IdsSpec == IdsInit /\ [][IdsNext]_vars

\* What the Sender Actor may be asked in an UpdateAllocationIds message and
\* find when it handles it.
UpdateInputs ==
    [new_allocation_ids : SUBSET TrigAllocs, spawned : SUBSET TrigAllocs,
     response : ClosedResponses]

\* C16 Unconfirmed removals stay: when the Sender Actor handles
\* UpdateAllocationIds(new_set), an allocation of its current set that is
\* absent from new_set and that the network subgraph does not report as
\* closed, a failed query included, keeps its Allocation Actor running, is
\* not blocked in the fee tracker and stays in the allocation set: the
\* handler neither stops its actor, nor blocks it, nor removes it.
UnconfirmedRemovalsStay ==
    \A m \in UpdateInputs :
        LET s == State
            s2 == HandleUpdateAllocationIds(s, m.new_allocation_ids,
                                            m.spawned, m.response)
        IN  \A a \in s.allocation_ids \ m.new_allocation_ids :
                (m.response.err \/ a \notin m.response.closed) =>
                    /\ a \in s2.allocation_ids
                    /\ s2.stopped[a] = s.stopped[a]
                    /\ (a \in s2.sender_allocations) = (a \in s.sender_allocations)
                    /\ s2.sender_fee_tracker[a].blocked
                           = s.sender_fee_tracker[a].blocked

\* The last UpdateAllocationIds left out an allocation whose actor runs
\* on, unblocked and in the set, next to one that it closed.
UnconfirmedRemovalsStayWitness ==
    /\ last_msg = "UpdateAllocationIds"
    /\ \E a \in allocation_ids :
          /\ a \in sender_allocations
          /\ stopped[a] = "no"
          /\ ~sender_fee_tracker[a].blocked
          /\ sender_fee_tracker[a].total_fee > 0
    /\ \E b \in Allocs : stopped[b] = "blocked" /\ b \notin allocation_ids

\* C17 Confirmed-closed removal: when the Sender Actor handles
\* UpdateAllocationIds(new_set), every allocation of its current set that
\* is absent from new_set and confirmed closed by the network subgraph is
\* marked blocked in the fee tracker before its Allocation Actor is told to
\* close, and is no longer in the allocation set when the handler returns.
ConfirmedClosedRemoval ==
    \A m \in UpdateInputs :
        LET s == State
            s2 == HandleUpdateAllocationIds(s, m.new_allocation_ids,
                                            m.spawned, m.response)
        IN  \A a \in s.allocation_ids \ m.new_allocation_ids :
                (~m.response.err /\ a \in m.response.closed) =>
                    /\ s2.sender_fee_tracker[a].blocked
                    /\ s2.stopped[a] # "unblocked"
                    /\ a \notin s2.allocation_ids

\* ------------------------------------------------------------ properties: NewReceipt
\* An Allocation Actor that starts with an empty store and is sent
\* notifications of any id and any value, in any order.
NewReceiptNotification(id, fees) ==
    /\ status = "running"
    /\ SetAllocState(HandleNewReceipt(AllocState, id, fees))
    /\ UNCHANGED << senderVars, serviceVars, gateVars >>

ReceiptInit == AllocSpecInit

ReceiptNext ==
    \E id \in NotificationIds \cup {0}, fees \in 0 .. U128_MAX :
        NewReceiptNotification(id, fees)

ReceiptSpec == ReceiptInit /\ [][ReceiptNext]_vars

\* C18 NewReceipt handling: when an Allocation Actor handles
\* NewReceipt(id, value), if id <= last_id its state is unchanged and
\* nothing is reported to the Sender Actor; if id > last_id then last_id
\* becomes id, unaggregated_fees.value becomes min(old value + value,
\* u128::MAX) without ever wrapping, and the new total is reported to the
\* Sender Actor.
NewReceiptHandling ==
    \A id \in NotificationIds \cup {0}, fees \in 0 .. U128_MAX :
        LET s == AllocState
            s2 == HandleNewReceipt(s, id, fees)
        IN  /\ id <= s.unaggregated_fees.last_id => s2 = s
            /\ id > s.unaggregated_fees.last_id =>
                  /\ s2.unaggregated_fees.last_id = id
                  /\ s2.unaggregated_fees.value
                         = Min(s.unaggregated_fees.value + fees, U128_MAX)
                  /\ s2.unaggregated_fees.value >= s.unaggregated_fees.value
                  /\ s2.new_value_casts = {s2.unaggregated_fees}

\* A notification took the fees to u128::MAX and was reported.
NewReceiptHandlingWitness ==
    /\ new_value_casts = {unaggregated_fees}
    /\ unaggregated_fees.value = U128_MAX
    /\ unaggregated_fees.last_id = 3

\* The NewReceipt notification of a stored receipt reaches the actor: the
\* next one, or once more one that was handled before.
Notified(id) ==
    /\ status = "running"
    /\ id \in 1 .. Len(inserted)
    /\ id <= delivered + 1
    /\ added[id] < MaxAdded
    /\ LET s2 == HandleNewReceipt(AllocState, id, ValueOf(AllocState, id))
       IN  /\ SetAllocFields([s2 EXCEPT !.delivered = Max(@, id)])
           /\ added' = IF s2.new_value_casts # {}
                       THEN [added EXCEPT ![id] = @ + 1] ELSE added
    /\ UNCHANGED << senderVars, serviceVars, gateVars >>

\* Receipts are stored and notified, late or more than once, while RAV
\* requests and restarts recompute the fees from the store.
NotifyNext ==
    \/ \E receipt \in Arriving(AllocState) : StoreReceipt(receipt)
    \/ \E id \in 1 .. MaxReceipts : Notified(id)
    \/ \E kind \in {"expected", "timeout"} : TriggerRAVRequest({}, kind)
    \/ Tick
    \/ BackoffEnds
    \/ Restart

NotifySpec == AllocSpecInit /\ [][NotifyNext]_vars

\* C19 No receipt is counted twice: over any interleaving of NewReceipt
\* notifications, duplicated or late ones included, with start-up
\* recomputation and RAV requests, the value of any one receipt id is
\* added to unaggregated_fees at most once, and last_id never decreases.
NoReceiptCountedTwice ==
    /\ [](\A id \in DOMAIN added : added[id] <= 1)
    /\ [][unaggregated_fees'.last_id >= unaggregated_fees.last_id]_vars

\* ------------------------------------------- properties: invalid fees
\* C20 Invalid fees are monotone: over any sequence of
\* UpdateInvalidReceiptFees messages the invalid-receipt fee value the
\* Sender Actor tracks for an allocation never decreases, and the total of
\* the invalid fees the deny condition uses never decreases.
InvalidFeesMonotone ==
    [][LET tracked(t, a) == IF t[a] = NoEntry THEN 0 ELSE t[a]
       IN  /\ \A a \in Allocs :
                  tracked(invalid_receipts_tracker', a)
                      >= tracked(invalid_receipts_tracker, a)
           /\ SimpleTotal(invalid_receipts_tracker')
                  >= SimpleTotal(invalid_receipts_tracker)]_vars

\* ------------------------------------------- Sender Actor: restart
\* pre_start with denied left false whatever the table holds.
SenderAccount_pre_start_allowed(s, balance) ==
    [s EXCEPT !.sender_fee_tracker = [a \in Allocs |-> DefaultStats],
              !.rav_tracker = [a \in Allocs |-> NoEntry],
              !.invalid_receipts_tracker = [a \in Allocs |-> NoEntry],
              !.scheduled_rav_request = None,
              !.retry_timers = 0,
              !.denied = FALSE,
              !.sender_balance = balance,
              !.adaptive_limiter =
                  [current_limit |-> Min(Max(INITIAL_RAV_REQUEST_CONCURRENT,
                                             LIMIT_RANGE_START), LIMIT_RANGE_END),
                   in_flight |-> 0],
              !.backoff_info = FALSE,
              !.sender_allocations = s.allocation_ids,
              !.stopped = [a \in Allocs |-> "no"],
              !.retry_casts = {},
              !.trigger_requests = [a \in Allocs |-> 0]]

\* SenderAccount::pre_start over the store s holds: denied is read from
\* scalar_tap_denylist, the balance from the escrow accounts, the trackers
\* start empty and an Allocation Actor is created for every allocation.
SenderAccount_pre_start(s, balance) ==
    [s EXCEPT !.sender_fee_tracker = [a \in Allocs |-> DefaultStats],
              !.rav_tracker = [a \in Allocs |-> NoEntry],
              !.invalid_receipts_tracker = [a \in Allocs |-> NoEntry],
              !.scheduled_rav_request = None,
              !.retry_timers = 0,
              !.denied = s.denylist,
              !.sender_balance = balance,
              !.adaptive_limiter =
                  [current_limit |-> Min(Max(INITIAL_RAV_REQUEST_CONCURRENT,
                                             LIMIT_RANGE_START), LIMIT_RANGE_END),
                   in_flight |-> 0],
              !.backoff_info = FALSE,
              !.sender_allocations = s.allocation_ids,
              !.stopped = [a \in Allocs |-> "no"],
              !.retry_casts = {},
              !.trigger_requests = [a \in Allocs |-> 0]]

\* get_balance_for_sender(..).unwrap_or_default(): 0 for a sender the
\* escrow accounts do not hold.
StartBalances == Balances \cup {0}

\* The Sender Actor is started again: what it held in memory and the
\* messages in flight are lost, the store is kept.
PreStart(balance) ==
    /\ last_msg # "none"
    /\ SetState(SenderAccount_pre_start(State, balance), "pre_start")

\* The messages that move the deny condition, and restarts.
RestartNext ==
    \/ \E a \in Allocs, value \in ReceiptValues : NewReceipt(a, value, FALSE)
    \/ \E a \in Allocs, fees \in FeePairs : UpdateValue(a, fees)
    \/ \E a \in Allocs, fees \in FeePairs, ok \in BOOLEAN :
            RavRequestResponse(a, fees, ok, IF ok THEN 1 ELSE NoEntry)
    \/ Retry
    \/ \E a \in Allocs, v \in RavAmounts : UpdateRav(a, v)
    \/ \E a \in Allocs, v \in InvalidAmounts : UpdateInvalidReceiptFees(a, v)
    \/ \E b \in Balances :
            UpdateBalanceAndLastRavs(b, [a \in Allocs |-> NoEntry])
    \/ \E balance \in StartBalances : PreStart(balance)

RestartSpec == Init /\ [][RestartNext]_vars

\* C21 Denial survives restart: a Sender Actor starts with denied equal to
\* whether scalar_tap_denylist holds the sender, so a sender denied before
\* the restart is denied after it, and a denied sender stays denied over
\* every step that leaves its deny condition true.
DenialSurvivesRestart ==
    [][/\ last_msg' = "pre_start" =>
              /\ denied' = denylist
              /\ denied => denied'
       /\ denied /\ deny_condition_reached(State)' => denied']_vars

\* A sender denied before the restart has restarted with its deny condition
\* true and is denied.
DenialSurvivesRestartWitness ==
    /\ last_msg = "pre_start"
    /\ denied
    /\ deny_condition_reached(State)

\* ------------------------------------------- properties: scheduled Retry
\* C22 Scheduled retry: at most one Retry is scheduled at any time;
\* handling any UpdateReceiptFees message first cancels the Retry scheduled
\* before it, and a new Retry is scheduled at the end of the handler
\* exactly when the sender is then denied and its deny condition holds.
ScheduledRetry ==
    /\ retry_timers <= 1
    /\ (retry_timers = 1) = (scheduled_rav_request # None)
    /\ last_msg = "UpdateReceiptFees" =>
           (scheduled_rav_request # None) = (denied /\ deny_condition_reached(State))
    /\ \A a \in allocation_ids : \A receipt_fees \in ReceiptFeesMessages(a) :
           LET s1 == BeforeTrigger(State, a, receipt_fees)
           IN  /\ s1.scheduled_rav_request = None
               /\ s1.retry_timers = 0
               /\ \A h \in get_heaviest_allocation_id(s1.sender_fee_tracker) :
                      LET s2 == HandleUpdateReceiptFees(State, a, receipt_fees, h)
                          retry == s2.denied /\ deny_condition_reached(s2)
                      IN  /\ s2.retry_timers = IF retry THEN 1 ELSE 0
                          /\ s2.scheduled_rav_request = IF retry THEN a ELSE None

\* A denied sender whose deny condition holds after an UpdateReceiptFees,
\* with the one Retry scheduled for allocation 1.
ScheduledRetryWitness ==
    /\ last_msg = "UpdateReceiptFees"
    /\ scheduled_rav_request = 1
    /\ retry_timers = 1
    /\ denied
    /\ deny_condition_reached(State)

\* ------------------------------------------- properties: denied senders
\* C23 Denied senders keep aggregating: while a sender is denied with fees
\* outside the buffer at or above trigger_value, a Retry is scheduled to
\* fire after retry_interval, or a RAV request is in flight whose response
\* schedules one, so that its fees are aggregated without new receipts
\* until it is re-admitted.
DeniedKeepsAggregating ==
    /\ last_msg # "none"
    /\ denied
    /\ get_ravable_total_fee(sender_fee_tracker) >= config.trigger_value
    => scheduled_rav_request # None \/ Outstanding > 0

\* ------------------------------------------- properties: RAV and escrow
\* pending_ravs + unaggregated_fees as the Sender Actor in state s holds them.
EscrowUsed(s) == SimpleTotal(s.rav_tracker) + get_total_fee(s.sender_fee_tracker)

\* What the Sender Actor holds for allocation a: its pending RAV and its
\* unaggregated fees.
EscrowUsedBy(s, a) ==
    (IF s.rav_tracker[a] = NoEntry THEN 0 ELSE s.rav_tracker[a])
        + s.sender_fee_tracker[a].total_fee

\* The successful RavRequestResponse messages allocation a may answer a
\* TriggerRavRequest with.
OkResponses(a) ==
    {[fees |-> f, ok |-> TRUE, rav |-> r] :
        f \in {g \in FeePairs : g.counter >= sender_fee_tracker[a].buf_count},
        r \in RavValues}

\* The Sender Actor once it has handled response r of allocation a.
AfterResponse(a, r, h) ==
    HandleUpdateReceiptFees([State EXCEPT !.trigger_requests[a] = @ - 1], a,
                            [kind |-> "RavRequestResponse", response |-> r], h)

\* C24 as stated: handling a successful RAV response whose RAV is above the
\* pending one does not decrease pending_ravs + unaggregated_fees, and a
\* sender denied because pending_ravs + unaggregated_fees >= sender_balance
\* is still denied after it.
RavFreesNoEscrow ==
    \A a \in allocation_ids : trigger_requests[a] > 0 =>
        \A r \in OkResponses(a) :
            r.rav # NoEntry /\ r.rav > EscrowUsedBy(State, a) - sender_fee_tracker[a].total_fee =>
                \A h \in get_heaviest_allocation_id(
                            BeforeTrigger(State, a,
                                [kind |-> "RavRequestResponse", response |-> r]
                            ).sender_fee_tracker) :
                    LET s2 == AfterResponse(a, r, h)
                    IN  /\ EscrowUsed(s2) >= EscrowUsed(State)
                        /\ denied /\ EscrowExhausted => s2.denied

\* C24 amended: handling a successful RAV response sets the allocation's
\* pending RAV to the RAV's value_aggregate (0 without a RAV) and its
\* unaggregated fees to the fees reported, whatever was held before; when
\* the two together are not below what was held for the allocation, the
\* fees that left having gone into the RAV, pending_ravs +
\* unaggregated_fees does not decrease and a sender denied because it is
\* >= sender_balance is still denied.
RavTransfersFees ==
    \A a \in allocation_ids : trigger_requests[a] > 0 =>
        \A r \in OkResponses(a) :
            \A h \in get_heaviest_allocation_id(
                        BeforeTrigger(State, a,
                            [kind |-> "RavRequestResponse", response |-> r]
                        ).sender_fee_tracker) :
                LET s2 == AfterResponse(a, r, h)
                    value_aggregate == IF r.rav = NoEntry THEN 0 ELSE r.rav
                IN  /\ s2.rav_tracker[a] = value_aggregate
                    /\ s2.sender_fee_tracker[a].total_fee = r.fees.value
                    /\ EscrowUsed(s2) - EscrowUsed(State)
                           = value_aggregate + r.fees.value - EscrowUsedBy(State, a)
                    /\ value_aggregate + r.fees.value >= EscrowUsedBy(State, a) =>
                           /\ EscrowUsed(s2) >= EscrowUsed(State)
                           /\ denied /\ EscrowExhausted => s2.denied

\* A successful response raised the limiter and moved all the fees of
\* allocation 1 into its pending RAV; the sender is denied over its escrow
\* alone.
RavTransfersFeesWitness ==
    /\ last_msg = "UpdateReceiptFees"
    /\ adaptive_limiter.current_limit > INITIAL_RAV_REQUEST_CONCURRENT
    /\ rav_tracker[1] >= 1
    /\ sender_fee_tracker[1].total_fee = 0
    /\ EscrowExhausted /\ ~ToleranceExceeded
    /\ denied

\* ------------------------------------------- properties: balance updates
\* The RAV maps the escrow watcher may report: a value for some of the
\* allocations of the set and of the closed ones.
RavMaps ==
    {[a \in Allocs |-> IF a \in DOMAIN m THEN m[a] ELSE NoEntry] :
        m \in [allocation_ids \cup ClosedAllocs -> RavValues]}

\* C25 Balance update decides both ways: after the Sender Actor handles
\* UpdateBalanceAndLastRavs(balance, ravs), sender_balance is balance, the
\* RAV tracker holds the values of ravs, has lost the entries of
\* allocations that are neither in ravs nor in the allocation set and keeps
\* the others, and denied is true exactly when the deny condition holds
\* for them, the denylist table following.
BalanceDecidesBothWays ==
    /\ last_msg = "UpdateBalanceAndLastRavs" =>
           /\ denied = deny_condition_reached(State)
           /\ denylist = denied
    /\ \A new_balance \in Balances : \A non_final_last_ravs \in RavMaps :
           LET s2 == HandleUpdateBalanceAndLastRavs(State, new_balance,
                                                    non_final_last_ravs)
           IN  /\ s2.sender_balance = new_balance
               /\ \A a \in Allocs :
                      s2.rav_tracker[a] =
                          IF non_final_last_ravs[a] # NoEntry
                          THEN non_final_last_ravs[a]
                          ELSE IF a \in allocation_ids THEN rav_tracker[a]
                               ELSE NoEntry
               /\ s2.denied = deny_condition_reached(s2)
               /\ s2.denylist = s2.denied

\* A balance that dropped to the pending fees, which stay below the other
\* balance and below the tolerance, has denied the sender.
BalanceDecidesWitness ==
    /\ last_msg = "UpdateBalanceAndLastRavs"
    /\ sender_balance = 1
    /\ PendingRavs + UnaggregatedFees \in 1 .. 2
    /\ ~ToleranceExceeded
    /\ denied /\ denylist

\* ------------------------------------------- properties: closing while denied
\* Two allocations of a sender with ample escrow and a low tolerance:
\* receipts deny the sender, allocations are closed, their actors are told
\* to stop and terminate.
CloseInit ==
    /\ SenderInit(TrigAllocs,
                  [trigger_value |-> 3, max_amount_willing_to_lose_grt |-> 2,
                   rav_request_receipt_limit |-> 3],
                  {100}, {FALSE})
    /\ AllocInit
    /\ ServiceInit({0})

CloseNext ==
    \/ \E new_allocation_ids \in SUBSET TrigAllocs, response \in ClosedResponses :
            UpdateAllocationIds(new_allocation_ids, TrigAllocs, response)
    \/ \E a \in TrigAllocs : ActorTerminated(a)
    \/ \E a \in TrigAllocs : RetryCast(a)
    \/ Retry
    \/ \E a \in TrigAllocs :
            /\ a \in sender_allocations
            /\ stopped[a] = "no"
            /\ NewReceipt(a, 1, FALSE)

CloseSpec == CloseInit /\ [][CloseNext]_vars

\* C26 Closing an allocation lifts a denial it caused: the handler of an
\* Allocation Actor's termination removes the allocation's fees from the
\* unaggregated fees and casts a Retry; the handler of that Retry, when the
\* sender is denied and its deny condition no longer holds, re-admits the
\* sender, deletes its denylist row and leaves no Retry scheduled.
ClosingLiftsDenial ==
    /\ \A a \in sender_allocations :
           LET s1 == HandleActorTerminated(
                         [State EXCEPT !.sender_allocations = @ \ {a},
                                       !.stopped[a] = "no"], a)
           IN  /\ s1.sender_fee_tracker[a].total_fee = 0
               /\ get_total_fee(s1.sender_fee_tracker)
                      = UnaggregatedFees - sender_fee_tracker[a].total_fee
               /\ a \in s1.retry_casts
    /\ \A a \in retry_casts :
           denied /\ ~deny_condition_reached(State) =>
               \A h \in get_heaviest_allocation_id(
                           BeforeTrigger(State, a, [kind |-> "Retry"]
                           ).sender_fee_tracker) :
                   LET s2 == HandleUpdateReceiptFees(
                                 [State EXCEPT !.retry_casts = @ \ {a}], a,
                                 [kind |-> "Retry"], h)
                   IN  /\ ~s2.denied
                       /\ ~s2.denylist
                       /\ s2.scheduled_rav_request = None
                       /\ s2.retry_timers = 0

\* The actor of an allocation has terminated and its Retry is still to be
\* handled: the sender, denied over that allocation's fees with a Retry
\* scheduled, no longer meets its deny condition.
ClosingLiftsDenialWitness ==
    /\ last_msg = "ActorTerminated"
    /\ \E a \in retry_casts :
          /\ a \notin sender_allocations
          /\ sender_fee_tracker[a].total_fee = 0
    /\ denied
    /\ scheduled_rav_request # None
    /\ ~deny_condition_reached(State)

\* ------------------------------------------- properties: RAV request size
\* An Allocation Actor configured with rav_request_receipt_limit = 1.
SizeInit ==
    /\ SenderInit({1},
                  [trigger_value |-> 1, max_amount_willing_to_lose_grt |-> 2,
                   rav_request_receipt_limit |-> 1],
                  {3}, {FALSE})
    /\ AllocInit
    /\ ServiceInit({0})

SizeNext ==
    \/ \E receipt \in Arriving(AllocState) : StoreReceipt(receipt)
    \/ AllocNewReceipt
    \/ TriggerRAVRequest({}, "expected")
    \/ Tick

SizeSpec == SizeInit /\ [][SizeNext]_vars

\* C27 RAV request size limit: no RAV request sent to the aggregator holds
\* more than rav_request_receipt_limit receipts, however many eligible
\* receipts are stored for the allocation.
RavRequestSizeLimit ==
    Cardinality(rav_request_receipts) <= config.rav_request_receipt_limit

\* ------------------------------------------------------------ Timestamp check
\* |a - b|
AbsDiff(a, b) == IF a > b THEN a - b ELSE b - a

\* C30 Timestamp tolerance: the Timestamp check accepts a receipt if and
\* only if |receipt.timestamp_ns - now| <= timestamp_error_tolerance, both
\* bounds inclusive, and rejects it otherwise (for a clock that is not
\* before the tolerance, where now - tolerance is a Duration).
TimestampTolerance ==
    now >= TIMESTAMP_ERROR_TOLERANCE =>
        \A receipt \in Arriving(AllocState) :
            timestamp_check(AllocState, receipt.timestamp_ns)
                <=> AbsDiff(receipt.timestamp_ns, now) <= TIMESTAMP_ERROR_TOLERANCE

\* ------------------------------------------------------------ EscrowAdapter
\* The outcome of an arithmetic overflow: the panic of a build with
\* overflow checks; a build without them wraps.
Panic == -1

\* u128 `a - b` and `a + b`: every outcome a build can give.
u128_sub(a, b) == IF a >= b THEN {a - b} ELSE {Panic, a - b + U128_MAX + 1}

u128_add(a, b) ==
    IF a + b <= U128_MAX THEN {a + b} ELSE {Panic, (a + b) % (U128_MAX + 1)}

\* get_available_escrow: balance - fees, read under the read lock.
get_available_escrow(balance, fees) == u128_sub(balance, fees)

\* The escrow accounts Eventual publishes a new balance.
EscrowAccountsUpdate(balance) ==
    /\ balance # escrow_accounts
    /\ escrow_accounts' = balance
    /\ UNCHANGED << sender_pending_fees, subtract_escrow_calls, pglistener,
                    notifications, sender_denylist, raced >>
    /\ UNCHANGED << senderVars, allocVars, gateVars >>

\* subtract_escrow up to the await of the write lock: it has read
\* current_available_escrow and released the read lock.
SubtractEscrowRead(c, value) ==
    /\ subtract_escrow_calls[c].pc # "read"
    /\ \E r \in get_available_escrow(escrow_accounts, sender_pending_fees) :
         subtract_escrow_calls' = [subtract_escrow_calls EXCEPT ![c] =
            IF r = Panic
            THEN [pc |-> "done", value |-> value,
                  current_available_escrow |-> 0, result |-> "panic"]
            ELSE [pc |-> "read", value |-> value,
                  current_available_escrow |-> r, result |-> "none"]]
    /\ UNCHANGED << escrow_accounts, sender_pending_fees, pglistener,
                    notifications, sender_denylist, raced >>
    /\ UNCHANGED << senderVars, allocVars, gateVars >>

\* subtract_escrow under the write lock: the comparison with the value
\* read before, and `*fees += value`.
SubtractEscrowWrite(c) ==
    LET call == subtract_escrow_calls[c]
    IN  /\ call.pc = "read"
        /\ IF call.current_available_escrow < call.value
           THEN /\ sender_pending_fees' = sender_pending_fees
                /\ subtract_escrow_calls' = [subtract_escrow_calls EXCEPT ![c] =
                        [call EXCEPT !.pc = "done", !.result = "Err"]]
           ELSE \E fees \in u128_add(sender_pending_fees, call.value) :
                /\ sender_pending_fees' =
                        IF fees = Panic THEN sender_pending_fees ELSE fees
                /\ subtract_escrow_calls' = [subtract_escrow_calls EXCEPT ![c] =
                        [call EXCEPT !.pc = "done",
                            !.result = IF fees = Panic THEN "panic" ELSE "Ok"]]
        /\ UNCHANGED << escrow_accounts, pglistener, notifications,
                        sender_denylist, raced >>
        /\ UNCHANGED << senderVars, allocVars, gateVars >>

EscrowNext ==
    \/ \E balance \in 0 .. MaxVal : EscrowAccountsUpdate(balance)
    \/ \E c \in Callers, value \in 1 .. MaxVal : SubtractEscrowRead(c, value)
    \/ \E c \in Callers : SubtractEscrowWrite(c)

EscrowSpec == AllocSpecInit /\ [][EscrowNext]_vars

\* The available escrow: the sender's balance minus its pending fees.
AvailableEscrow == escrow_accounts - sender_pending_fees

\* C28 Escrow subtraction: a subtract_escrow call of value v that no other
\* call and no balance update interleaves with ends in Ok or in an error;
\* it ends in Ok exactly when v <= available escrow and then lowers the
\* available escrow by exactly v; when v > available escrow it ends in an
\* error and the available escrow is as before the call.
EscrowSubtraction ==
    [][\A c \in Callers :
        LET call == subtract_escrow_calls[c]
            v == subtract_escrow_calls'[c].value
            result == subtract_escrow_calls'[c].result
        IN  (/\ call.pc # "done" /\ subtract_escrow_calls'[c].pc = "done"
             /\ call.pc = "read" =>
                    call.current_available_escrow \in
                        get_available_escrow(escrow_accounts, sender_pending_fees))
              => /\ result \in {"Ok", "Err"}
                 /\ (result = "Ok") <=> (v <= AvailableEscrow)
                 /\ result = "Ok" => AvailableEscrow' = AvailableEscrow - v
                 /\ result = "Err" => AvailableEscrow' = AvailableEscrow]_vars

\* ------------------------------------------------------------ DenyListCheck
\* The rows of scalar_tap_denylist.
scalar_tap_denylist == IF denylist THEN {SENDER} ELSE {}

\* The signer of the sender, and a signer no sender has authorised.
SIGNER == 1
Signers == {SIGNER, 2}

\* EscrowAccounts::get_sender_for_signer: {} is the error.
get_sender_for_signer(signer) == IF signer = SIGNER THEN {SENDER} ELSE {}

\* new, up to LISTEN on scalar_tap_deny_notification.
Listen ==
    /\ pglistener = "new"
    /\ pglistener' = "listening"
    /\ UNCHANGED << escrow_accounts, sender_pending_fees, subtract_escrow_calls,
                    notifications, sender_denylist, raced >>
    /\ UNCHANGED << senderVars, allocVars, gateVars >>

\* sender_denylist_reload: the set becomes the rows the SELECT returns.
sender_denylist_reload(old, rows) == rows

\* The rest of new: the start-up load, and the watcher task is spawned.
StartupLoad ==
    /\ pglistener = "listening"
    /\ pglistener' = "watching"
    /\ sender_denylist' = sender_denylist_reload(sender_denylist, scalar_tap_denylist)
    /\ raced' = notifications
    /\ UNCHANGED << escrow_accounts, sender_pending_fees, subtract_escrow_calls,
                    notifications >>
    /\ UNCHANGED << senderVars, allocVars, gateVars >>

\* The watcher's match as a watcher that handles only INSERT would have it.
watcher_insert_only(old, notification, rows) ==
    IF notification.tg_op = "INSERT"
    THEN old \cup {notification.sender_address}
    ELSE old

\* The watcher's match on tg_op.
watcher_match(old, notification, rows) ==
    CASE notification.tg_op = "INSERT" -> old \cup {notification.sender_address}
      [] notification.tg_op = "DELETE" -> old \ {notification.sender_address}
      [] OTHER -> sender_denylist_reload(old, rows)

\* sender_denylist_watcher: one turn of its loop, on the oldest
\* notification.
DenylistWatcher ==
    /\ pglistener = "watching"
    /\ notifications # << >>
    /\ sender_denylist' = watcher_match(sender_denylist, Head(notifications),
                                        scalar_tap_denylist)
    /\ notifications' = Tail(notifications)
    /\ UNCHANGED << escrow_accounts, sender_pending_fees, subtract_escrow_calls,
                    pglistener, raced >>
    /\ UNCHANGED << senderVars, allocVars, gateVars >>

\* Another session inserts or deletes the sender's row.
DenylistChange(row) ==
    /\ Len(notifications) < MaxNotifications
    /\ row # denylist
    /\ SetState([State EXCEPT !.denylist = row], last_msg)

\* Another session updates the sender's row, which the trigger reports
\* with tg_op UPDATE.
DenylistUpdate ==
    /\ Len(notifications) < MaxNotifications
    /\ denylist
    /\ pglistener # "new"
    /\ notifications' = Append(notifications,
                               [tg_op |-> "UPDATE", sender_address |-> SENDER])
    /\ UNCHANGED << escrow_accounts, sender_pending_fees, subtract_escrow_calls,
                    pglistener, sender_denylist, raced >>
    /\ UNCHANGED << senderVars, allocVars, gateVars >>

\* DenyListCheck::check of a receipt of the signer.
deny_list_check(in_memory, signer) ==
    LET receipt_sender == get_sender_for_signer(signer)
    IN  IF receipt_sender = {} THEN "Err"
        ELSE IF receipt_sender \subseteq in_memory THEN "Err"
        ELSE "Ok"

DenyNext ==
    \/ Listen
    \/ StartupLoad
    \/ DenylistWatcher
    \/ \E row \in BOOLEAN : DenylistChange(row)
    \/ DenylistUpdate
    \/ \E b \in StartBalances :
            /\ Len(notifications) < MaxNotifications
            /\ UpdateBalanceAndLastRavs(b, [a \in Allocs |-> NoEntry])

DenySpec == AllocSpecInit /\ [][DenyNext]_vars

\* C29 Live denylist: once the watcher runs and every notification has
\* been consumed, the in-memory denylist equals the rows of the denylist
\* table, so the Deny List check rejects a receipt whose signer has a
\* sender if and only if that sender is in the table.
LiveDenylist ==
    (pglistener = "watching" /\ notifications = << >>)
        => /\ sender_denylist = scalar_tap_denylist
           /\ \A signer \in Signers :
                get_sender_for_signer(signer) # {}
                    => (deny_list_check(sender_denylist, signer) = "Err"
                        <=> get_sender_for_signer(signer) \subseteq scalar_tap_denylist)

\* Changes raced with the start-up load, all their notifications were
\* consumed afterwards, and the sender is denied in the table and in memory.
LiveDenylistWitness ==
    /\ pglistener = "watching"
    /\ notifications = << >>
    /\ raced # << >>
    /\ denylist
    /\ sender_denylist = {SENDER}
    /\ deny_list_check(sender_denylist, SIGNER) = "Err"

\* ------------------------------------------------------------ tap_receipt_authorize
\* The requests: with or without the SignedReceipt extension ({} is
\* None), with or without the MetricLabels extension.
Requests31 ==
    [receipt : {{}} \cup {{[signer |-> g, timestamp_ns |-> t]} :
                            g \in Signers, t \in 0 .. MaxNow},
     labels : BOOLEAN]

\* The CheckList of the Manager: the Timestamp and the Deny List check.
check_list(s, in_memory, receipt) ==
    /\ timestamp_check(s, receipt.timestamp_ns)
    /\ deny_list_check(in_memory, receipt.signer) = "Ok"

\* verify_and_store_receipt as a Manager that stores before it verifies
\* would do it.
store_and_verify_receipt(queue, receipt, passes, store_ok) ==
    IF ~store_ok THEN [result |-> "StoreError", queue |-> queue]
    ELSE [result |-> IF passes THEN "Ok" ELSE "CheckFailure",
          queue |-> Append(queue, receipt)]

\* Manager::verify_and_store_receipt: the checks, then store_receipt,
\* which hands the receipt to the receipt store's queue.
verify_and_store_receipt(queue, receipt, passes, store_ok) ==
    IF ~passes THEN [result |-> "CheckFailure", queue |-> queue]
    ELSE IF ~store_ok THEN [result |-> "StoreError", queue |-> queue]
    ELSE [result |-> "Ok", queue |-> Append(queue, receipt)]

\* IndexerServiceError::into_response; Ok passes the request on.
into_response(result) ==
    CASE result = "Ok" -> "passed on"
      [] result = "ReceiptNotFound" -> "402 Payment Required"
      [] result = "CheckFailure" -> "400 Bad Request"
      [] OTHER -> "500 Internal Server Error"

\* The closure of tap_receipt_authorize, for one request.
TapReceiptAuthorize(request, store_ok) ==
    /\ requests_handled < MaxRequests
    /\ LET execute ==
            IF request.receipt = {}
            THEN [result |-> "ReceiptNotFound", queue |-> receipt_producer]
            ELSE LET receipt == CHOOSE r \in request.receipt : TRUE
                 IN  verify_and_store_receipt(receipt_producer, receipt,
                        check_list(AllocState, sender_denylist, receipt), store_ok)
       IN  /\ receipt_producer' = execute.queue
           /\ failed_receipt_metric' =
                IF execute.result \in {"CheckFailure", "StoreError"} /\ request.labels
                THEN failed_receipt_metric + 1
                ELSE failed_receipt_metric
           /\ last_response' = [status |-> into_response(execute.result),
                                request |-> request]
    /\ requests_handled' = requests_handled + 1
    /\ UNCHANGED << senderVars, allocVars, serviceVars >>

GateNext ==
    \/ \E request \in Requests31, store_ok \in BOOLEAN :
            TapReceiptAuthorize(request, store_ok)
    \/ Tick
    \/ Listen
    \/ StartupLoad
    \/ DenylistWatcher
    \/ \E row \in BOOLEAN : DenylistChange(row)

GateSpec == AllocSpecInit /\ [][GateNext]_vars

\* C31 Paid-query gate: a request is passed on to the backend only if it
\* carries a signed receipt that passed every receipt check and was handed
\* to the receipt store; a request without a receipt is answered 402, a
\* request whose receipt fails a check is answered 400 and increments the
\* failed-receipt metric when labels are present, and in neither rejected
\* case is a receipt stored.
PaidQueryGate ==
    [][requests_handled' # requests_handled =>
        LET request == last_response'.request
            answer == last_response'.status
            passes == \A r \in request.receipt :
                        check_list(AllocState, sender_denylist, r)
        IN  /\ answer = "passed on" =>
                /\ request.receipt # {}
                /\ passes
                /\ \E r \in request.receipt :
                        receipt_producer' = Append(receipt_producer, r)
            /\ request.receipt = {} =>
                /\ answer = "402 Payment Required"
                /\ receipt_producer' = receipt_producer
            /\ (request.receipt # {} /\ ~passes) =>
                /\ answer = "400 Bad Request"
                /\ receipt_producer' = receipt_producer
                /\ request.labels => failed_receipt_metric' = failed_receipt_metric + 1
      ]_vars

\* One request was passed on with its receipt handed to the store, and
\* one with labels was answered 400 and counted.
PaidQueryGateWitness ==
    /\ requests_handled = 2
    /\ Len(receipt_producer) = 1
    /\ failed_receipt_metric = 1
    /\ last_response.status = "400 Bad Request"
    /\ last_response.request.labels

\* ------------------------------------------------------------ the limiter's range
\* One allocation whose requests are answered, any number of times.
CapNext ==
    \/ \E value \in ReceiptValues : NewReceipt(1, value, FALSE)
    \/ \E ok \in BOOLEAN :
            RavResponse(1,
                IF ok THEN [value |-> 0, counter |-> 0]
                ELSE [value |-> sender_fee_tracker[1].total_fee,
                      counter |-> sender_fee_tracker[1].count],
                ok, IF ok THEN 1 ELSE NoEntry)
    \/ BackoffElapses(1)

CapSpec == AllocSpecInit /\ [][CapNext]_vars

\* C32 Limiter bounds: the adaptive limiter's capacity starts at 1 and
\* stays within [1, 50]; the handler of a successful RavRequestResponse
\* raises it by 1 but not above 50, that of a failed one halves it but not
\* below 1, and exactly one of the two adjustments is applied per response.
LimiterBounds ==
    /\ last_msg = "none" => adaptive_limiter.current_limit = 1
    /\ adaptive_limiter.current_limit \in 1 .. 50
    /\ \A a \in Allocs, fees \in FeePairs, ok \in BOOLEAN :
        LET response == [fees |-> fees, ok |-> ok,
                         rav |-> IF ok THEN 1 ELSE NoEntry]
            limit == adaptive_limiter.current_limit
            s2 == BeforeTrigger(State, a,
                        [kind |-> "RavRequestResponse", response |-> response])
        IN  s2.adaptive_limiter.current_limit =
                IF ok THEN (IF limit + 1 > 50 THEN 50 ELSE limit + 1)
                ELSE (IF limit \div 2 < 1 THEN 1 ELSE limit \div 2)

\* The capacity has reached the upper end of its range, by the responses
\* the Sender Actor handled.
LimiterBoundsWitness ==
    /\ adaptive_limiter.current_limit = 50
    /\ last_msg = "UpdateReceiptFees"

\* ------------------------------------------------------------ request eligibility
\* Receipts and responses for two allocations that may be closed: a closed
\* one is blocked, and its actor is registered until it has terminated.
EligNext ==
    \/ \E a \in TrigAllocs, value \in ReceiptValues : NewReceipt(a, value, FALSE)
    \/ \E a \in TrigAllocs, ok \in BOOLEAN :
            RavRequestResponse(a,
                IF ok THEN [value |-> 0, counter |-> 0]
                ELSE [value |-> sender_fee_tracker[a].total_fee,
                      counter |-> sender_fee_tracker[a].count],
                ok, IF ok THEN 1 ELSE NoEntry)
    \/ \E a \in TrigAllocs : BackoffElapses(a)
    \/ \E new_allocation_ids \in SUBSET TrigAllocs, response \in ClosedResponses :
            UpdateAllocationIds(new_allocation_ids, TrigAllocs, response)

EligSpec == TrigInit /\ [][EligNext]_vars

\* The UpdateReceiptFees messages the Sender Actor may get for an
\* allocation, with the state it handles each in.
Handled33(a) ==
    {[state |-> State, receipt_fees |-> m] : m \in ReceiptFeesMessages(a)}
    \cup {[state |-> [State EXCEPT !.trigger_requests[a] = @ - 1],
           receipt_fees |-> [kind |-> "RavRequestResponse",
                             response |-> [fees |-> f, ok |-> ok,
                                           rav |-> IF ok THEN 1 ELSE NoEntry]]] :
            f \in {g \in FeePairs : /\ trigger_requests[a] > 0
                                    /\ g.counter >= sender_fee_tracker[a].buf_count},
            ok \in BOOLEAN}

\* C33 Request eligibility: the Sender Actor never sends TriggerRavRequest,
\* by the value trigger or by the count trigger, to an allocation that has
\* a RAV request in flight, that is blocked or that is in backoff; hence
\* at most one RAV request per allocation is outstanding at any time.
RequestEligibility ==
    /\ \A a \in Allocs : trigger_requests[a] <= 1
    /\ \A a \in Allocs : \A m \in Handled33(a) :
        LET s1 == BeforeTrigger(m.state, a, m.receipt_fees)
        IN  \A h \in get_heaviest_allocation_id(s1.sender_fee_tracker) :
              LET s2 == TriggerRavRequests(s1, a, h)
              IN  \A b \in Allocs :
                    s2.trigger_requests[b] > s1.trigger_requests[b]
                      => /\ s1.trigger_requests[b] = 0
                         /\ ~s1.sender_fee_tracker[b].requesting
                         /\ ~s1.sender_fee_tracker[b].blocked
                         /\ ~s1.sender_fee_tracker[b].in_backoff

\* One allocation has a request in flight, the other is blocked, and
\* together they hold fees above the trigger value.
RequestEligibilityWitness ==
    /\ trigger_requests[1] = 1
    /\ sender_fee_tracker[1].total_fee > 0
    /\ sender_fee_tracker[2].blocked
    /\ sender_fee_tracker[2].total_fee > 0
    /\ get_total_fee(sender_fee_tracker) >= config.trigger_value

\* ------------------------------------------------------------ Sender Actor: a failed child
\* handle_supervisor_evt(ActorFailed) for the actor of an allocation;
\* spawned holds the allocations whose actor can be started now.
HandleActorFailed(s, a, spawned) ==
    IF a \in s.allocation_ids THEN create_sender_allocation(s, {a}, spawned)
    ELSE s

\* An Allocation Actor panics: it is no longer registered when the Sender
\* Actor handles the supervision event.
ActorFailed(a, spawned) ==
    /\ a \in sender_allocations
    /\ stopped[a] = "no"
    /\ SetState(HandleActorFailed([State EXCEPT !.sender_allocations = @ \ {a}],
                                  a, spawned),
                "ActorFailed")

FailNext ==
    \/ \E a \in TrigAllocs, value \in ReceiptValues : NewReceipt(a, value, FALSE)
    \/ \E a \in TrigAllocs, fees \in FeePairs : UpdateValue(a, fees)
    \/ \E a \in TrigAllocs, ok \in BOOLEAN :
            RavRequestResponse(a,
                IF ok THEN [value |-> 0, counter |-> 0]
                ELSE [value |-> sender_fee_tracker[a].total_fee,
                      counter |-> sender_fee_tracker[a].count],
                ok, IF ok THEN 1 ELSE NoEntry)
    \/ \E a \in TrigAllocs, spawned \in SUBSET TrigAllocs : ActorFailed(a, spawned)

FailSpec == TrigInit /\ [][FailNext]_vars

\* C34 Restart on failure: when the Sender Actor has handled the failure
\* of an Allocation Actor, a replacement actor exists for the allocation:
\* every allocation of the allocation set that had an actor still has one.
RestartOnFailure ==
    [][last_msg' = "ActorFailed"
          => \A a \in allocation_ids' \cap sender_allocations :
                a \in sender_allocations']_vars

\* ------------------------------------------------------------ C35
\* C35: RAV tracker reconciliation.  Whatever balance and map of last
\* RAVs the Sender Actor handles as UpdateBalanceAndLastRavs, afterwards
\* the RAV tracker holds the value of the map for every allocation the
\* map has a key for, holds no entry for an allocation that is neither a
\* key of the map nor in the allocation set, and holds what it held
\* before for an allocation of the allocation set the map has no key for.
RavReconciliation ==
    \A new_balance \in Balances : \A ravs \in RavMaps :
        LET after == HandleUpdateBalanceAndLastRavs(State, new_balance, ravs)
            in_ravs == {a \in Allocs : ravs[a] # NoEntry}
        IN  /\ \A a \in in_ravs : after.rav_tracker[a] = ravs[a]
            /\ \A a \in Allocs \ (in_ravs \cup allocation_ids) :
                   a \notin SimpleList(after.rav_tracker)
            /\ \A a \in allocation_ids \ in_ravs :
                   after.rav_tracker[a] = rav_tracker[a]
            /\ after.allocation_ids = allocation_ids

\* The handler has added the RAV of an allocation that is not in the
\* allocation set, next to the RAV of one that is: the next message finds
\* an entry to remove and an entry to keep.
RavReconciliationWitness ==
    /\ last_msg = "UpdateBalanceAndLastRavs"
    /\ \E a \in Allocs \ allocation_ids : rav_tracker[a] \in RavAmounts
    /\ \E a \in allocation_ids : rav_tracker[a] \in RavAmounts

\* ------------------------------------------------------------ C36
\* The mailbox of an Allocation Actor that was told to stop, or that is
\* gone, is dropped: the TriggerRavRequest in it is never handled and no
\* RavRequestResponse comes for it.
MailboxDropped(a) ==
    /\ trigger_requests[a] > 0
    /\ a \notin sender_allocations \/ stopped[a] # "no"
    /\ SetState([State EXCEPT !.trigger_requests[a] = 0], last_msg)

\* Receipts arrive, RAV requests are sent and answered, allocations are
\* closed and their actors stop or fail, with the requests they had not
\* handled.
SlotNext ==
    \/ \E a \in TrigAllocs, value \in ReceiptValues : NewReceipt(a, value, FALSE)
    \/ \E a \in TrigAllocs :
            RavRequestResponse(a, [value |-> 0, counter |-> 0], TRUE, 1)
    \/ \E a \in TrigAllocs :
            RavRequestResponse(a, [value |-> sender_fee_tracker[a].total_fee,
                                   counter |-> sender_fee_tracker[a].count],
                               FALSE, NoEntry)
    \/ \E new_allocation_ids \in SUBSET TrigAllocs, response \in ClosedResponses :
            UpdateAllocationIds(new_allocation_ids, TrigAllocs, response)
    \/ \E a \in TrigAllocs : ActorTerminated(a)
    \/ \E a \in TrigAllocs, spawned \in SUBSET TrigAllocs : ActorFailed(a, spawned)
    \/ \E a \in TrigAllocs : MailboxDropped(a)

SlotSpec == TrigInit /\ [][SlotNext]_vars

\* C36: limiter slots are released.  Every slot the Sender Actor acquired
\* with a TriggerRavRequest is held by a request that is still to be
\* answered, also after the actor of the allocation was closed or has
\* failed: whenever no RAV request is outstanding no slot is taken, the
\* limiter has a free slot and a RAV request can be triggered.
LimiterSlotsReleased ==
    /\ adaptive_limiter.in_flight <= Outstanding
    /\ Outstanding = 0 => has_limit(adaptive_limiter)

\* ------------------------------------------------------------ C37
\* C37: invalid receipts are counted once.  Over any sequence of RAV
\* requests, failed ones that are tried again included, a stored receipt
\* has at most one row in scalar_tap_receipts_invalid and its value is in
\* invalid_receipts_fees at most once: the invalid fees are at most the
\* sum of the values of the receipts that have a row there.
InvalidCountedOnce ==
    /\ \A id \in 1 .. Len(inserted) : scalar_tap_receipts_invalid[id] <= 1
    /\ invalid_receipts_fees
          <= SumValues(AllocState,
                       {id \in 1 .. Len(inserted) :
                            scalar_tap_receipts_invalid[id] >= 1})

\* ------------------------------------------------------------ C38
\* The service has checked a receipt and hands it to the queue of the
\* receipt store.
QueueReceipt(receipt) ==
    /\ status = "running"
    /\ Len(inserted) + Len(receipt_producer) < MaxReceipts
    /\ timestamp_check(AllocState, receipt.timestamp_ns)
    /\ receipt_producer' = Append(receipt_producer, receipt)
    /\ UNCHANGED << failed_receipt_metric, last_response, requests_handled >>
    /\ UNCHANGED << senderVars, allocVars, serviceVars >>

\* The task of the receipt store takes the next receipt of the queue and
\* inserts its row.
StoreQueuedReceipt ==
    /\ receipt_producer # << >>
    /\ SetAllocState([AllocState EXCEPT
            !.inserted = Append(@, Head(receipt_producer)),
            !.scalar_tap_receipts = @ \cup {Len(inserted) + 1}])
    /\ receipt_producer' = Tail(receipt_producer)
    /\ UNCHANGED << failed_receipt_metric, last_response, requests_handled >>
    /\ UNCHANGED << senderVars, serviceVars >>

\* Receipts, each signed once, are checked by the service, wait in the
\* queue of the receipt store and are inserted while the Allocation Actor handles its
\* notifications and its RAV requests, and is started again.
LossNext ==
    \/ \E t \in 0 .. MaxNow :
            QueueReceipt([signature |-> Len(inserted) + Len(receipt_producer) + 1,
                          timestamp_ns |-> t])
    \/ StoreQueuedReceipt
    \/ AllocNewReceipt
    \/ \E failed_checks \in SUBSET scalar_tap_receipts, kind \in Responses :
            TriggerRAVRequest(failed_checks, kind)
    \/ Tick
    \/ BackoffEnds
    \/ Restart

LossSpec == AllocSpecInit /\ [][LossNext]_vars

\* C38: no receipt is lost.  However the insertion of receipts interleaves
\* with the RAV requests, a receipt row that is no longer pending had its
\* value included in a stored RAV or is on record in
\* scalar_tap_receipts_invalid.
NoReceiptLost ==
    \A id \in Rows :
        id \notin scalar_tap_receipts
            => aggregated[id] >= 1 \/ scalar_tap_receipts_invalid[id] >= 1

\* ------------------------------------------------------------ C39
\* An UpdateReceiptFees(NewReceipt) the actor of a cast before it stopped
\* is handled after the termination of the actor: supervision events
\* pass the messages that wait in the mailbox.
LateReceiptFees(a, value) ==
    /\ a \notin sender_allocations
    /\ sender_fee_tracker[a].blocked
    /\ sender_fee_tracker[a].total_fee + value <= MaxVal
    /\ UpdateReceiptFees(State, a,
                         [kind |-> "NewReceipt", value |-> value, fresh |-> FALSE],
                         "UpdateReceiptFees")

\* The allocations of the sender come and go as in IdsSpec, and the fee
\* messages of an actor may be handled after its termination.
StaleNext ==
    \/ \E new_allocation_ids \in SUBSET TrigAllocs, spawned \in SUBSET TrigAllocs,
          response \in ClosedResponses :
            UpdateAllocationIds(new_allocation_ids, spawned, response)
    \/ \E a \in TrigAllocs : ActorTerminated(a)
    \/ \E a \in TrigAllocs : RetryCast(a)
    \/ \E a \in TrigAllocs :
            /\ a \in sender_allocations
            /\ stopped[a] = "no"
            /\ NewReceipt(a, 1, FALSE)
    \/ \E a \in TrigAllocs :
            RavRequestResponse(a, [value |-> 0, counter |-> 0], TRUE, 1)
    \/ \E a \in TrigAllocs : LateReceiptFees(a, 1)

StaleSpec == IdsInit /\ [][StaleNext]_vars

\* C39: no stale fees after termination.  When the Sender Actor has
\* handled the termination of the actor of an allocation the fee tracker
\* holds no unaggregated fees for the allocation, and as long as no new
\* actor is created for it no later message brings fees back.
NoStaleFees ==
    [][\A a \in Allocs :
          /\ (last_msg' = "ActorTerminated"
                /\ a \in sender_allocations /\ a \notin sender_allocations')
                => sender_fee_tracker'[a].total_fee = 0
          /\ (a \notin sender_allocations /\ a \notin sender_allocations'
                /\ sender_fee_tracker[a].total_fee = 0)
                => sender_fee_tracker'[a].total_fee = 0]_vars

\* ------------------------------------------------------------ C40
\* C40: escrow is never over-committed.  However the subtract_escrow calls
\* of the sender's signers interleave, with each other and with the
\* updates of the sender's balance, the pending fees of the sender are at
\* most its escrow balance, so that balance - fees is not negative, and no
\* call ends in the overflow of that subtraction.
EscrowNeverOverCommitted ==
    /\ sender_pending_fees <= escrow_accounts
    /\ \A c \in Callers : subtract_escrow_calls[c].result # "panic"

====
